---- MODULE Spec2Model ----
(***************************************************************************)
(* Programmable series AC load limiter (SeriesLoadLimiter.ino).            *)
(*                                                                         *)
(* The sketch is one foreground thread (setup() followed by loop()) and    *)
(* two interrupt handlers, ZeroCrossingIRQ and OvercurrentIRQ.  The model  *)
(* gives the foreground a program counter pc and a call stack; a handler   *)
(* runs to completion between any two foreground steps.  The #defines the  *)
(* sketch invites the builder to change (MaximumCurrent, CurrentPresets)   *)
(* are instantiated with a small configuration the sketch's own #error     *)
(* checks accept; everything derived from them is derived as in the        *)
(* source.                                                                 *)
(***************************************************************************)
EXTENDS Integers, Sequences, FiniteSets, TLC

(* ------------------------- configuration ------------------------------ *)
\* #define MaximumCurrent (mA); small-configuration value
MaximumCurrent == 3
\* #define CurrentPresets; small-configuration value
CurrentPresets == 2
\* #define MainsFrequency (Hz)
MainsFrequency == 50
\* #define MaxZeroCrossingTimeIncrement (uS)
MaxZeroCrossingTimeIncrement == 10
\* the same #defines with the values of the sketch as written
SourceMaximumCurrent == 10000
SourceCurrentDigitCount == 5
SourceLargestDigitIncrement == 10000

\* polls of WaitForZeroCrossingOrTimeout that pass between two looks of the
\* model at the flag (granularity of modelled time)
PollStride == 2000
\* most commands read by one serial programming session before EXIT
MaxCommands == 1
\* most pushbutton presses handled by loop()
MaxPresses == 1

\* #define CurrentDigitCount: "must correspond with above"
CurrentDigitCount ==
    IF MaximumCurrent < 10 THEN 1
    ELSE IF MaximumCurrent < 100 THEN 2
    ELSE IF MaximumCurrent < 1000 THEN 3
    ELSE IF MaximumCurrent < 10000 THEN 4 ELSE 5

RECURSIVE Pow10(_)
Pow10(n) == IF n = 0 THEN 1 ELSE 10 * Pow10(n - 1)

\* #define LargestDigitIncrement: 1/10/100/1000/10000 for 1..5 digits
LargestDigitIncrement == Pow10(CurrentDigitCount - 1)

\* #define MaxZeroCrossingTime
MaxZeroCrossingTime == ((1000000 * 2) \div MainsFrequency) \div MaxZeroCrossingTimeIncrement

\* the threshold of line 885: 75% of the nominal half period, in uS
SinewaveThreshold == (((1000000 \div MainsFrequency) \div 2) * 75) \div 100

\* Arduino word / byte arithmetic
Word(n) == n % (2 ^ 16)
Byte(n) == n % (2 ^ 8)
MaxWord == (2 ^ 16) - 1

LOW == "LOW"
HIGH == "HIGH"

ErrorNone == 0
ErrorSinewaveOnly == 1
ErrorNoAltCycles == 2
ErrorNoZeroCross == 3

\* seconds TimePushbuttonHeld can return
Holds == 0 .. 10

\* inputs of the serial session: memory numbers, currents, and what an
\* uninitialised word may hold
MemoryInputs == {0, 1, CurrentPresets, CurrentPresets + 1}
CurrentInputs == {0, MaximumCurrent, MaximumCurrent + 1}
Indeterminate == {0, MaxWord}

\* contents the EEPROM may have at power-up
StoredWords == {1, MaxWord}
StoredRecall == {CurrentPresets - 1, CurrentPresets}
StoredFlag == {0, 1}

Presets == 0 .. (CurrentPresets - 1)

(* ----------------------------- state ---------------------------------- *)
VARIABLES
    pc,                       \* foreground position
    stack,                    \* return labels of the calls in progress
    OutputEnable,             \* level of the OutputEnable pin (actuator gate)
    EnableOutput,             \* volatile byte EnableOutput
    ZeroCrossingDetected,     \* volatile bool
    OvercurrentSensed,        \* volatile bool
    zcAttach,                 \* mode the zero-cross interrupt is attached in
    ocAttach,                 \* overcurrent interrupt attached
    CurrentLimit,
    RecalledPreset,
    BackEMFcountermeasuresRequired,
    DummyZeroCrossingIRQenable,
    ZeroCrossingTime,
    ErrorCode,
    pwm,                      \* duty code last written to CurrentLimitPWM
    eeprom,                   \* [preset, recall, backemf]
    loc,                      \* locals of setup()/loop() and call arguments; stop:
                              \* what the last poll of a test's stop signal read
    hist                      \* what setup() has observed of the mains (saw: per wait,
                              \* edge or timeout; m: uS measured), the commands
                              \* taken so far (cmd: the STORE last typed), the
                              \* presses npress still to be served,
                              \* and the last line reported; for the press being
                              \* served, before: what the sketch held when it came,
                              \* act: the menu action taken on it

irq == <<OutputEnable, EnableOutput, ZeroCrossingDetected, OvercurrentSensed, zcAttach, ocAttach>>
ram == <<CurrentLimit, RecalledPreset, BackEMFcountermeasuresRequired,
         DummyZeroCrossingIRQenable, ZeroCrossingTime, ErrorCode>>
dev == <<pwm, eeprom>>
ctl == <<pc, stack>>
vars == <<pc, stack, OutputEnable, EnableOutput, ZeroCrossingDetected, OvercurrentSensed,
          zcAttach, ocAttach, CurrentLimit, RecalledPreset,
          BackEMFcountermeasuresRequired, DummyZeroCrossingIRQenable, ZeroCrossingTime,
          ErrorCode, pwm, eeprom, loc, hist>>

NoSaw == [k \in 1 .. 5 |-> "-"]

\* the locals and call arguments before anything is assigned to them; a local
\* is put back to this value where its function returns or reassigns it
NoLocals == [hold |-> 0, i |-> 0, data |-> 0, preset |-> 0, value |-> 0,
             both |-> TRUE, OldPreset |-> 0, OldPWMvalue |-> 0, SelectedDigit |-> 0,
             stop |-> FALSE]

Init ==
    /\ pc = "S_flag"
    /\ stack = <<>>
    /\ OutputEnable = LOW
    /\ EnableOutput = LOW
    /\ ZeroCrossingDetected = FALSE
    /\ OvercurrentSensed = FALSE
    /\ zcAttach = "none"
    /\ ocAttach = FALSE
    /\ CurrentLimit = 0
    /\ RecalledPreset = 0
    /\ BackEMFcountermeasuresRequired = FALSE
    /\ DummyZeroCrossingIRQenable = FALSE
    /\ ZeroCrossingTime = 0
    /\ ErrorCode = ErrorNone
    /\ pwm = MaximumCurrent + 1
    /\ \E p \in [Presets -> StoredWords], r \in StoredRecall, f \in StoredFlag :
          eeprom = [preset |-> p, recall |-> r, backemf |-> f]
    /\ loc = NoLocals
    /\ hist = [saw |-> NoSaw, m |-> 0, ncmd |-> 0, cmd |-> <<"-">>, npress |-> MaxPresses, reply |-> <<"-">>,
               act |-> "-", before |-> <<>>]

(* --------------------------- control flow ----------------------------- *)
Goto(l) == pc' = l /\ stack' = stack
Call(entry, ret) == pc' = entry /\ stack' = <<ret>> \o stack
Return == pc' = Head(stack) /\ stack' = Tail(stack)

(* ------------------------ interrupt handlers -------------------------- *)

\* faulty variant: the zero-cross handler turns the output on whatever was requested
ZeroCrossingIRQ_alwaysOn ==
    /\ ZeroCrossingDetected' = TRUE
    /\ OutputEnable' = HIGH

\* void ZeroCrossingIRQ()
ZeroCrossingIRQ ==
    /\ ZeroCrossingDetected' = TRUE
    /\ OutputEnable' = EnableOutput

\* faulty variant: the overcurrent handler only records the event
OvercurrentIRQ_flagOnly ==
    /\ OutputEnable' = OutputEnable
    /\ OvercurrentSensed' = TRUE

\* void OvercurrentIRQ()
OvercurrentIRQ ==
    /\ OutputEnable' = LOW
    /\ OvercurrentSensed' = TRUE

\* an edge on ZeroCrossingIRQpin (mains, or the dummy AC cycles generator) that
\* the attached mode (CHANGE, RISING or FALLING) lets through.  Edges the mode
\* masks change nothing the sketch can read, and one can always lie between
\* two edges that are let through, so the pin's level is not part of the state.
ZeroCrossEdge ==
    /\ zcAttach # "none"
    /\ ZeroCrossingIRQ
    /\ UNCHANGED <<ctl, EnableOutput, OvercurrentSensed, zcAttach, ocAttach, ram, dev, loc, hist>>

\* a falling edge of the overcurrent comparator on OvercurrentIRQpin
OvercurrentEdge ==
    /\ ocAttach
    /\ OvercurrentIRQ
    /\ UNCHANGED <<ctl, EnableOutput, ZeroCrossingDetected, zcAttach, ocAttach, ram, dev, loc, hist>>

(* --------------------------- subroutines ------------------------------ *)
\* DisableInterrupts(), line 243
DI_detachZC ==
    /\ pc = "DI_detachZC"
    /\ zcAttach' = "none"
    /\ Goto("DI_low")
    /\ UNCHANGED <<OutputEnable, EnableOutput, ZeroCrossingDetected, OvercurrentSensed, ocAttach, ram, dev, loc, hist>>

\* faulty variant: DisableInterrupts() leaves the output as it is
DI_low_skipped ==
    /\ pc = "DI_low"
    /\ Goto("DI_detachOC")
    /\ UNCHANGED <<irq, ram, dev, loc, hist>>

\* DisableInterrupts(), line 244
DI_low ==
    /\ pc = "DI_low"
    /\ OutputEnable' = LOW
    /\ Goto("DI_detachOC")
    /\ UNCHANGED <<EnableOutput, ZeroCrossingDetected, OvercurrentSensed, zcAttach, ocAttach, ram, dev, loc, hist>>

\* DisableInterrupts(), line 245
DI_detachOC ==
    /\ pc = "DI_detachOC"
    /\ ocAttach' = FALSE
    /\ Return
    /\ UNCHANGED <<OutputEnable, EnableOutput, ZeroCrossingDetected, OvercurrentSensed, zcAttach, ram, dev, loc, hist>>

\* EnableInterrupts(), line 238
EI_attachOC ==
    /\ pc = "EI_attachOC"
    /\ ocAttach' = TRUE
    /\ Goto("EI_attachZC")
    /\ UNCHANGED <<OutputEnable, EnableOutput, ZeroCrossingDetected, OvercurrentSensed, zcAttach, ram, dev, loc, hist>>

\* EnableInterrupts(), line 239
EI_attachZC ==
    /\ pc = "EI_attachZC"
    /\ zcAttach' = "CHANGE"
    /\ Return
    /\ UNCHANGED <<OutputEnable, EnableOutput, ZeroCrossingDetected, OvercurrentSensed, ocAttach, ram, dev, loc, hist>>

\* RecallPreset(loc.preset): DisableInterrupts(), then the read
RP_begin ==
    /\ pc = "RP_begin"
    /\ Call("DI_detachZC", "RP_read")
    /\ UNCHANGED <<irq, ram, dev, loc, hist>>

\* RecallPreset: readWord, then EnableInterrupts(), which returns to the caller
RP_read ==
    /\ pc = "RP_read"
    /\ loc' = [loc EXCEPT !.data = eeprom.preset[loc.preset]]
    /\ Goto("EI_attachOC")
    /\ UNCHANGED <<irq, ram, dev, hist>>

\* StorePreset(loc.value, loc.preset): DisableInterrupts(), then the write
SP_begin ==
    /\ pc = "SP_begin"
    /\ Call("DI_detachZC", "SP_write")
    /\ UNCHANGED <<irq, ram, dev, loc, hist>>

\* faulty variant: StorePreset returns without EnableInterrupts()
SP_write_detached ==
    /\ pc = "SP_write"
    /\ eeprom' = [eeprom EXCEPT !.preset[loc.preset] = loc.value]
    /\ Return
    /\ UNCHANGED <<irq, ram, pwm, loc, hist>>

\* StorePreset: writeWord, then EnableInterrupts(), which returns to the caller
SP_write ==
    /\ pc = "SP_write"
    /\ eeprom' = [eeprom EXCEPT !.preset[loc.preset] = loc.value]
    /\ Goto("EI_attachOC")
    /\ UNCHANGED <<irq, ram, pwm, loc, hist>>

\* faulty variant: the duty code is computed from MaximumCurrent, not MaximumCurrent + 1
DutyCodeIn_offByOne(limit, maximum) == Word(Word(maximum) - limit)

\* lines 313-314: word temp = (MaximumCurrent + 1); temp -= CurrentLimit
DutyCodeIn(limit, maximum) == Word(Word(maximum + 1) - limit)

\* the duty code in the configuration of the model
DutyCode(limit) == DutyCodeIn(limit, MaximumCurrent)

\* WriteCurrentLimit(false): write the duty code, settle
WCL ==
    /\ pc = "WCL"
    /\ pwm' = DutyCode(CurrentLimit)
    /\ Return
    /\ UNCHANGED <<irq, ram, eeprom, loc, hist>>

\* WriteCurrentLimit(true): write the duty code; at 0 the flag is cleared after the settle delay
WCL_sweep ==
    /\ pc = "WCL_sweep"
    /\ pwm' = DutyCode(CurrentLimit)
    /\ IF CurrentLimit # 0 THEN Return ELSE Goto("WCL_clear")
    /\ UNCHANGED <<irq, ram, eeprom, loc, hist>>

\* WriteCurrentLimit(true), line 325
WCL_clear ==
    /\ pc = "WCL_clear"
    /\ OvercurrentSensed' = FALSE
    /\ Return
    /\ UNCHANGED <<OutputEnable, EnableOutput, ZeroCrossingDetected, zcAttach, ocAttach, ram, dev, loc, hist>>

\* faulty variant: the wait ends on a zero crossing only, whatever the count of polls
WaitForZeroCrossing_unbounded ==
    /\ pc = "WZ"
    /\ IF ~ZeroCrossingDetected
         THEN loc' = [loc EXCEPT !.i = IF loc.i < MaxZeroCrossingTime THEN loc.i + PollStride ELSE loc.i]
              /\ Goto("WZ")
         ELSE loc' = loc /\ Return
    /\ UNCHANGED <<irq, ram, dev, hist>>

\* WaitForZeroCrossingOrTimeout(): loc.i counts the polls made
WaitForZeroCrossingOrTimeout ==
    /\ pc = "WZ"
    /\ IF loc.i < MaxZeroCrossingTime /\ ~ZeroCrossingDetected
         THEN loc' = [loc EXCEPT !.i = loc.i + PollStride] /\ Goto("WZ")
         ELSE loc' = loc /\ Return
    /\ UNCHANGED <<irq, ram, dev, hist>>

Subroutines ==
    \/ DI_detachZC \/ DI_low \/ DI_detachOC
    \/ EI_attachOC \/ EI_attachZC
    \/ RP_begin \/ RP_read \/ SP_begin \/ SP_write
    \/ WCL \/ WCL_sweep \/ WCL_clear
    \/ WaitForZeroCrossingOrTimeout

(* ------------------------------ setup() ------------------------------- *)
\* lines 463-467: the flag is read into a bool, so the repair branch compares a
\* bool with true and false
S_flag ==
    /\ pc = "S_flag"
    /\ LET b == (eeprom.backemf # 0)
           repair == (b # TRUE /\ b # FALSE)
       IN /\ BackEMFcountermeasuresRequired' = (IF repair THEN FALSE ELSE b)
          /\ eeprom' = (IF repair THEN [eeprom EXCEPT !.backemf = 0] ELSE eeprom)
    /\ Goto("S_hold")
    /\ UNCHANGED <<irq, CurrentLimit, RecalledPreset, DummyZeroCrossingIRQenable,
                   ZeroCrossingTime, ErrorCode, pwm, loc, hist>>

\* lines 468-500: ActionToTake = TimePushbuttonHeld(); with 0 the serial prompt
\* turns any byte received within the grace time into ActionToTake = 5
S_hold ==
    /\ pc = "S_hold"
    /\ \E h \in Holds, avail \in BOOLEAN :
          loc' = [loc EXCEPT !.hold = IF h = 0 /\ avail THEN 5 ELSE h]
    /\ Goto("S_dispatch")
    /\ UNCHANGED <<irq, ram, dev, hist>>

\* lines 501-503: ActionToTake >= 10, calibration
S_calibration ==
    /\ pc = "S_dispatch"
    /\ loc.hold >= 10
    /\ CurrentLimit' = MaximumCurrent
    /\ Call("WCL", "CAL_dis")
    /\ UNCHANGED <<irq, RecalledPreset, BackEMFcountermeasuresRequired,
                   DummyZeroCrossingIRQenable, ZeroCrossingTime, ErrorCode, dev, hist>>
    /\ loc' = [loc EXCEPT !.hold = 0]

\* line 618: ActionToTake 5..9, serial programming mode
S_serial ==
    /\ pc = "S_dispatch"
    /\ loc.hold >= 5 /\ loc.hold <= 9
    /\ Goto("SER")
    /\ UNCHANGED <<irq, ram, dev, hist>>
    /\ loc' = [loc EXCEPT !.hold = 0]

\* faulty variant: the temporary toggle is written to the EEPROM as well
S_toggle_persisting ==
    /\ pc = "S_dispatch"
    /\ loc.hold >= 2 /\ loc.hold <= 4
    /\ BackEMFcountermeasuresRequired' = ~BackEMFcountermeasuresRequired
    /\ eeprom' = [eeprom EXCEPT !.backemf = IF ~BackEMFcountermeasuresRequired THEN 1 ELSE 0]
    /\ loc' = [loc EXCEPT !.hold = 0]
    /\ Goto("IN_loop")
    /\ UNCHANGED <<irq, CurrentLimit, RecalledPreset, DummyZeroCrossingIRQenable,
                   ZeroCrossingTime, ErrorCode, pwm, hist>>

\* lines 824-844: ActionToTake 2..4, temporary toggle
S_toggle ==
    /\ pc = "S_dispatch"
    /\ loc.hold >= 2 /\ loc.hold <= 4
    /\ BackEMFcountermeasuresRequired' = ~BackEMFcountermeasuresRequired
    /\ loc' = [loc EXCEPT !.hold = 0]
    /\ Goto("IN_loop")
    /\ UNCHANGED <<irq, CurrentLimit, RecalledPreset, DummyZeroCrossingIRQenable,
                   ZeroCrossingTime, ErrorCode, dev, hist>>

\* no branch of the if/else-if chain taken (ActionToTake 0 or 1)
S_plain ==
    /\ pc = "S_dispatch"
    /\ loc.hold < 2
    /\ loc' = [loc EXCEPT !.hold = 0]
    /\ Goto("IN_loop")
    /\ UNCHANGED <<irq, ram, dev, hist>>

\* line 504
CAL_dis ==
    /\ pc = "CAL_dis"
    /\ Call("DI_detachZC", "CAL_hold")
    /\ UNCHANGED <<irq, ram, dev, loc, hist>>

\* lines 528-531: wait for a press, ActionToTake = TimePushbuttonHeld()
CAL_hold ==
    /\ pc = "CAL_hold"
    /\ \E h \in Holds : loc' = [loc EXCEPT !.hold = h]
    /\ Goto("CAL_act")
    /\ UNCHANGED <<irq, ram, dev, hist>>

\* lines 537-553: persisted toggle of the countermeasure flag
CAL_toggle ==
    /\ pc = "CAL_act"
    /\ loc.hold >= 10
    /\ BackEMFcountermeasuresRequired' = ~BackEMFcountermeasuresRequired
    /\ eeprom' = [eeprom EXCEPT !.backemf = IF ~BackEMFcountermeasuresRequired THEN 1 ELSE 0]
    /\ Goto("CAL_dummy")
    /\ UNCHANGED <<irq, CurrentLimit, RecalledPreset, DummyZeroCrossingIRQenable,
                   ZeroCrossingTime, ErrorCode, pwm, hist>>
    /\ loc' = [loc EXCEPT !.hold = 0]

\* lines 554-562: current sweep chosen, EnableInterrupts()
CAL_sweep ==
    /\ pc = "CAL_act"
    /\ loc.hold >= 5 /\ loc.hold <= 9
    /\ Call("EI_attachOC", "BS_outer")
    /\ UNCHANGED <<irq, ram, dev, hist>>
    /\ loc' = [loc EXCEPT !.hold = 0]

\* neither branch: plain calibration display
CAL_plain ==
    /\ pc = "CAL_act"
    /\ loc.hold < 5
    /\ Goto("CAL_dummy")
    /\ UNCHANGED <<irq, ram, dev, hist>>
    /\ loc' = [loc EXCEPT !.hold = 0]

\* lines 563-566 and 605: outer sweep loop; a press leaves through DisableInterrupts()
BS_outer ==
    /\ pc = "BS_outer"
    /\ \E pressed \in BOOLEAN :
          IF pressed
            THEN loc' = [loc EXCEPT !.stop = TRUE] /\ Call("DI_detachZC", "CAL_dummy")
            ELSE loc' = [loc EXCEPT !.stop = FALSE, !.i = 0] /\ Goto("BS_inner")
    /\ UNCHANGED <<irq, ram, dev, hist>>

\* lines 567-572: for (word i = 0; i <= MaximumCurrent; i++)
BS_inner ==
    /\ pc = "BS_inner"
    /\ IF loc.i > MaximumCurrent
         THEN loc' = loc /\ CurrentLimit' = CurrentLimit /\ Goto("BS_outer")
         ELSE \E pressed \in BOOLEAN :
                 /\ loc' = [loc EXCEPT !.stop = pressed]
                 /\ IF pressed
                      THEN CurrentLimit' = CurrentLimit /\ Goto("BS_outer")
                      ELSE CurrentLimit' = loc.i /\ Call("WCL_sweep", "BS_check")
    /\ UNCHANGED <<irq, RecalledPreset, BackEMFcountermeasuresRequired,
                   DummyZeroCrossingIRQenable, ZeroCrossingTime, ErrorCode, dev, hist>>

\* lines 573-597: a trip is reported and the pass ends
BS_check ==
    /\ pc = "BS_check"
    /\ IF OvercurrentSensed
         THEN hist' = [hist EXCEPT !.reply = <<"sense", CurrentLimit>>] /\ Goto("BS_outer")
         ELSE hist' = hist /\ Goto("BS_range")
    /\ UNCHANGED <<irq, ram, dev, loc>>

\* lines 598-603 and the i++ of line 567: the flag is read again for OUT LIMIT
BS_range ==
    /\ pc = "BS_range"
    /\ hist' = IF OvercurrentSensed = FALSE /\ CurrentLimit = MaximumCurrent
                 THEN [hist EXCEPT !.reply = <<"out limit">>] ELSE hist
    /\ loc' = [loc EXCEPT !.i = Word(loc.i + 1)]
    /\ Goto("BS_inner")
    /\ UNCHANGED <<irq, ram, dev>>

\* lines 614-616: the dummy AC cycles generator is started
CAL_dummy ==
    /\ pc = "CAL_dummy"
    /\ DummyZeroCrossingIRQenable' = TRUE
    /\ loc' = NoLocals
    /\ Goto("IN_loop")
    /\ UNCHANGED <<irq, CurrentLimit, RecalledPreset, BackEMFcountermeasuresRequired,
                   ZeroCrossingTime, ErrorCode, dev>>
    /\ hist' = [hist EXCEPT !.reply = <<"-">>]

Dispatch ==
    \/ S_flag \/ S_hold \/ S_calibration \/ S_serial \/ S_toggle \/ S_plain
    \/ CAL_dis \/ CAL_hold \/ CAL_toggle \/ CAL_sweep \/ CAL_plain
    \/ BS_outer \/ BS_inner \/ BS_check \/ BS_range \/ CAL_dummy

(* ------------------- setup(): serial programming mode ------------------ *)
\* the range test of lines 646 and 683 on a memory number
ValidMemory(m) ==
    /\ m <= CurrentPresets
    /\ \/ CurrentPresets >= 100 /\ m >= 0 /\ m < 100
       \/ CurrentPresets < 100 /\ m >= 1 /\ m < 100

\* memories start at 1 if fewer than 100 are stored
MemoryIndex(m) == IF CurrentPresets < 100 THEN Word(m - 1) ELSE m

\* a command line has been read (line 633)
Reading == pc = "SER" /\ hist.ncmd < MaxCommands

Replied(r) == [hist EXCEPT !.cmd = <<"-">>, !.ncmd = hist.ncmd + 1, !.reply = <<r>>]

\* faulty variant: STORE does not compare the current with MaximumCurrent
Store_unchecked(MemoryToStore, ValueToStore) ==
    /\ Reading
    /\ IF ValidMemory(MemoryToStore)
         THEN /\ loc' = [loc EXCEPT !.preset = MemoryIndex(MemoryToStore), !.value = ValueToStore]
              /\ hist' = [hist EXCEPT !.cmd = <<"STORE", MemoryToStore, ValueToStore>>,
                                      !.ncmd = hist.ncmd + 1]
              /\ Call("SP_begin", "SER_ok")
         ELSE /\ loc' = loc
              /\ hist' = [Replied("ERROR") EXCEPT !.cmd = <<"STORE", MemoryToStore, ValueToStore>>]
              /\ Goto("SER")
    /\ UNCHANGED <<irq, ram, dev>>

\* faulty variant: a STORE that is refused is answered OK
Store_noError(MemoryToStore, ValueToStore) ==
    /\ Reading
    /\ IF ValidMemory(MemoryToStore) /\ ValueToStore <= MaximumCurrent
         THEN /\ loc' = [loc EXCEPT !.preset = MemoryIndex(MemoryToStore), !.value = ValueToStore]
              /\ hist' = [hist EXCEPT !.cmd = <<"STORE", MemoryToStore, ValueToStore>>,
                                      !.ncmd = hist.ncmd + 1]
              /\ Call("SP_begin", "SER_ok")
         ELSE /\ loc' = loc
              /\ hist' = [Replied("OK") EXCEPT !.cmd = <<"STORE", MemoryToStore, ValueToStore>>]
              /\ Goto("SER")
    /\ UNCHANGED <<irq, ram, dev>>

\* lines 636-660, STORE memory_number current_in_mA
Store(MemoryToStore, ValueToStore) ==
    /\ Reading
    /\ IF ValidMemory(MemoryToStore) /\ ValueToStore <= MaximumCurrent
         THEN /\ loc' = [loc EXCEPT !.preset = MemoryIndex(MemoryToStore), !.value = ValueToStore]
              /\ hist' = [hist EXCEPT !.cmd = <<"STORE", MemoryToStore, ValueToStore>>,
                                      !.ncmd = hist.ncmd + 1]
              /\ Call("SP_begin", "SER_ok")
         ELSE /\ loc' = loc
              /\ hist' = [Replied("ERROR") EXCEPT !.cmd = <<"STORE", MemoryToStore, ValueToStore>>]
              /\ Goto("SER")
    /\ UNCHANGED <<irq, ram, dev>>

\* STORE with any memory number and current typed
SER_store == \E m \in MemoryInputs, v \in CurrentInputs : Store(m, v)

\* lines 636-660, STORE memory_number DEFAULT: ValueToStore is never assigned
\* and is compared with MaximumCurrent all the same
StoreDefault(MemoryToStore, ValueToStore) ==
    /\ Reading
    /\ IF ValidMemory(MemoryToStore) /\ ValueToStore <= MaximumCurrent
         THEN /\ eeprom' = [eeprom EXCEPT !.recall = Byte(MemoryIndex(MemoryToStore))]
              /\ hist' = [Replied("OK") EXCEPT !.cmd = <<"STORE DEFAULT", MemoryToStore>>]
         ELSE /\ eeprom' = eeprom
              /\ hist' = [Replied("ERROR") EXCEPT !.cmd = <<"STORE DEFAULT", MemoryToStore>>]
    /\ Goto("SER")
    /\ UNCHANGED <<irq, ram, pwm, loc>>

\* STORE ... DEFAULT with any memory number typed and whatever ValueToStore holds
SER_storeDefault == \E m \in MemoryInputs, ValueToStore \in Indeterminate : StoreDefault(m, ValueToStore)

\* lines 662-668, READ ALL: the default is read and printed
SER_readAll ==
    /\ Reading
    /\ loc' = [loc EXCEPT !.i = 0]
    /\ hist' = [hist EXCEPT !.cmd = <<"-">>, !.ncmd = hist.ncmd + 1,
                            !.reply = <<"default", Byte(eeprom.recall + (IF CurrentPresets < 100 THEN 1 ELSE 0))>>]
    /\ Goto("RA_loop")
    /\ UNCHANGED <<irq, ram, dev>>

\* lines 669-677: for (int i = 0; i < CurrentPresets; i++) ... RecallPreset(i)
RA_loop ==
    /\ pc = "RA_loop"
    /\ IF loc.i < CurrentPresets
         THEN loc' = [loc EXCEPT !.preset = loc.i] /\ Call("RP_begin", "RA_print")
         ELSE loc' = loc /\ Goto("SER_ok")
    /\ UNCHANGED <<irq, ram, dev, hist>>

\* lines 677-678: the value read is printed
RA_print ==
    /\ pc = "RA_print"
    /\ hist' = [hist EXCEPT !.reply = <<"mA", loc.data>>]
    /\ loc' = [loc EXCEPT !.i = loc.i + 1]
    /\ Goto("RA_loop")
    /\ UNCHANGED <<irq, ram, dev>>

\* lines 682-692, READ memory_number
SER_read ==
    /\ Reading
    /\ \E m \in MemoryInputs :
          IF ValidMemory(m)
            THEN /\ loc' = [loc EXCEPT !.preset = MemoryIndex(m)]
                 /\ hist' = [hist EXCEPT !.cmd = <<"-">>, !.ncmd = hist.ncmd + 1]
                 /\ Call("RP_begin", "RD_print")
            ELSE /\ loc' = loc
                 /\ hist' = Replied("ERROR")
                 /\ Goto("SER")
    /\ UNCHANGED <<irq, ram, dev>>

\* lines 687-688
RD_print ==
    /\ pc = "RD_print"
    /\ hist' = [hist EXCEPT !.reply = <<"mA", loc.data>>]
    /\ Goto("SER_ok")
    /\ UNCHANGED <<irq, ram, dev, loc>>

\* faulty variant: CALIBRATE writes the duty code of the limit in force
SER_calibrate_limitKept ==
    /\ Reading
    /\ hist' = [hist EXCEPT !.cmd = <<"CALIBRATE">>, !.ncmd = hist.ncmd + 1]
    /\ Call("WCL", "CC_dis")
    /\ UNCHANGED <<irq, ram, dev, loc>>

\* lines 695-697, CALIBRATE
SER_calibrate ==
    /\ Reading
    /\ CurrentLimit' = MaximumCurrent
    /\ hist' = [hist EXCEPT !.cmd = <<"CALIBRATE">>, !.ncmd = hist.ncmd + 1]
    /\ Call("WCL", "CC_dis")
    /\ UNCHANGED <<irq, RecalledPreset, BackEMFcountermeasuresRequired,
                   DummyZeroCrossingIRQenable, ZeroCrossingTime, ErrorCode, dev, loc>>

\* line 698
CC_dis ==
    /\ pc = "CC_dis"
    /\ Call("DI_detachZC", "SER_ok")
    /\ UNCHANGED <<irq, ram, dev, loc, hist>>

\* lines 710-715, COMP_TEST current_in_mA
SER_compTest ==
    /\ Reading
    /\ \E CurrentToTest \in CurrentInputs :
          IF CurrentToTest <= MaximumCurrent
            THEN /\ CurrentLimit' = CurrentToTest
                 /\ hist' = [hist EXCEPT !.cmd = <<"-">>, !.ncmd = hist.ncmd + 1]
                 /\ Call("WCL", "CT_clear")
            ELSE /\ CurrentLimit' = CurrentLimit
                 /\ hist' = Replied("ERROR")
                 /\ Goto("SER")
    /\ UNCHANGED <<irq, RecalledPreset, BackEMFcountermeasuresRequired,
                   DummyZeroCrossingIRQenable, ZeroCrossingTime, ErrorCode, dev, loc>>

\* lines 717-718
CT_clear ==
    /\ pc = "CT_clear"
    /\ OvercurrentSensed' = FALSE
    /\ Call("EI_attachOC", "CT_loop")
    /\ UNCHANGED <<OutputEnable, EnableOutput, ZeroCrossingDetected, zcAttach, ocAttach,
                   ram, dev, loc, hist>>

\* lines 719-738: one turn of the test loop; pinLow is digitalRead(OvercurrentIRQpin) == LOW,
\* avail is Serial.available() > 0
CT_loop ==
    /\ pc = "CT_loop"
    /\ \E pinLow \in BOOLEAN, avail \in (IF loc.stop THEN {TRUE} ELSE BOOLEAN) :
          /\ OvercurrentSensed' = FALSE
          /\ hist' = IF OvercurrentSensed THEN [hist EXCEPT !.reply = <<"interrupt">>]
                     ELSE IF pinLow THEN [hist EXCEPT !.reply = <<"poll">>]
                     ELSE hist
          /\ loc' = [loc EXCEPT !.stop = avail]
          /\ IF avail THEN Call("DI_detachZC", "SER_ok") ELSE Goto("CT_loop")
    /\ UNCHANGED <<OutputEnable, EnableOutput, ZeroCrossingDetected, zcAttach, ocAttach,
                   ram, dev>>

\* lines 744-769, BACK_EMF ON / OFF / CHECK / anything else
SER_backEMF ==
    /\ Reading
    /\ \E arg \in {"ON", "OFF", "CHECK", "other"} :
          /\ BackEMFcountermeasuresRequired' =
                (IF arg = "ON" THEN TRUE
                 ELSE IF arg = "OFF" THEN FALSE ELSE BackEMFcountermeasuresRequired)
          /\ eeprom' = IF arg \in {"ON", "OFF"}
                         THEN [eeprom EXCEPT !.backemf = IF arg = "ON" THEN 1 ELSE 0]
                         ELSE eeprom
          /\ hist' = Replied(IF arg = "other" THEN "ERROR" ELSE "OK")
    /\ Goto("SER")
    /\ UNCHANGED <<irq, CurrentLimit, RecalledPreset, DummyZeroCrossingIRQenable,
                   ZeroCrossingTime, ErrorCode, pwm, loc>>

\* lines 770-772, CURRENT_SWEEP
SER_sweep ==
    /\ Reading
    /\ hist' = [hist EXCEPT !.cmd = <<"-">>, !.ncmd = hist.ncmd + 1]
    /\ Call("EI_attachOC", "CS_outer")
    /\ UNCHANGED <<irq, ram, dev, loc>>

\* lines 773-776 and 794: any received byte leaves through DisableInterrupts()
CS_outer ==
    /\ pc = "CS_outer"
    /\ \E avail \in (IF loc.stop THEN {TRUE} ELSE BOOLEAN) :
          IF avail
            THEN loc' = [loc EXCEPT !.stop = TRUE] /\ Call("DI_detachZC", "SER_ok")
            ELSE loc' = [loc EXCEPT !.i = 0] /\ Goto("CS_inner")
    /\ UNCHANGED <<irq, ram, dev, hist>>

\* faulty variant: the inner loop goes on with a byte waiting
CS_inner_noBreak ==
    /\ pc = "CS_inner"
    /\ IF loc.i > MaximumCurrent
         THEN loc' = loc /\ CurrentLimit' = CurrentLimit /\ Goto("CS_outer")
         ELSE \E avail \in (IF loc.stop THEN {TRUE} ELSE BOOLEAN) :
                 /\ loc' = [loc EXCEPT !.stop = avail]
                 /\ CurrentLimit' = loc.i
                 /\ Call("WCL_sweep", "CS_check")
    /\ UNCHANGED <<irq, RecalledPreset, BackEMFcountermeasuresRequired,
                   DummyZeroCrossingIRQenable, ZeroCrossingTime, ErrorCode, dev, hist>>

\* lines 777-782
CS_inner ==
    /\ pc = "CS_inner"
    /\ IF loc.i > MaximumCurrent
         THEN loc' = loc /\ CurrentLimit' = CurrentLimit /\ Goto("CS_outer")
         ELSE \E avail \in (IF loc.stop THEN {TRUE} ELSE BOOLEAN) :
                 /\ loc' = [loc EXCEPT !.stop = avail]
                 /\ IF avail
                      THEN CurrentLimit' = CurrentLimit /\ Goto("CS_outer")
                      ELSE CurrentLimit' = loc.i /\ Call("WCL_sweep", "CS_check")
    /\ UNCHANGED <<irq, RecalledPreset, BackEMFcountermeasuresRequired,
                   DummyZeroCrossingIRQenable, ZeroCrossingTime, ErrorCode, dev, hist>>

\* faulty variant: the value of the next step is reported as the trip value
CS_check_nextValue ==
    /\ pc = "CS_check"
    /\ IF OvercurrentSensed
         THEN hist' = [hist EXCEPT !.reply = <<"sense", Word(loc.i + 1)>>] /\ Goto("CS_outer")
         ELSE hist' = hist /\ Goto("CS_range")
    /\ UNCHANGED <<irq, ram, dev, loc>>

\* lines 783-788: a trip is reported and the pass ends
CS_check ==
    /\ pc = "CS_check"
    /\ IF OvercurrentSensed
         THEN hist' = [hist EXCEPT !.reply = <<"sense", CurrentLimit>>] /\ Goto("CS_outer")
         ELSE hist' = hist /\ Goto("CS_range")
    /\ UNCHANGED <<irq, ram, dev, loc>>

\* lines 789-792 and the i++ of line 777: the flag is read again for the
\* not-within-limits line
CS_range ==
    /\ pc = "CS_range"
    /\ hist' = IF OvercurrentSensed = FALSE /\ CurrentLimit = MaximumCurrent
                 THEN [hist EXCEPT !.reply = <<"out limit">>] ELSE hist
    /\ loc' = [loc EXCEPT !.i = Word(loc.i + 1)]
    /\ Goto("CS_inner")
    /\ UNCHANGED <<irq, ram, dev>>

\* lines 796-805 and 819, EXIT with or without DIAGNOSTICS
SER_exit ==
    /\ pc = "SER"
    /\ \E diagnostics \in BOOLEAN :
          /\ DummyZeroCrossingIRQenable' = (diagnostics \/ DummyZeroCrossingIRQenable)
          /\ hist' = [hist EXCEPT !.ncmd = 0, !.cmd = <<"-">>, !.reply = <<"-">>]
    /\ loc' = NoLocals
    /\ Goto("IN_loop")
    /\ UNCHANGED <<irq, CurrentLimit, RecalledPreset, BackEMFcountermeasuresRequired,
                   ZeroCrossingTime, ErrorCode, dev>>

\* lines 806-808, anything else
SER_unknown ==
    /\ Reading
    /\ hist' = Replied("ERROR")
    /\ Goto("SER")
    /\ UNCHANGED <<irq, ram, dev, loc>>

\* lines 809-815
SER_ok ==
    /\ pc = "SER_ok"
    /\ hist' = [hist EXCEPT !.reply = <<"OK">>]
    /\ Goto("SER")
    /\ UNCHANGED <<irq, ram, dev>>
    /\ loc' = NoLocals

Session ==
    \/ SER_store \/ SER_storeDefault \/ SER_readAll \/ RA_loop \/ RA_print
    \/ SER_read \/ RD_print \/ SER_calibrate \/ CC_dis
    \/ SER_compTest \/ CT_clear \/ CT_loop \/ SER_backEMF
    \/ SER_sweep \/ CS_outer \/ CS_inner \/ CS_check \/ CS_range
    \/ SER_exit \/ SER_unknown \/ SER_ok

(* ------------- setup(): stored values check and mains checks ----------- *)
\* line 845-846: for (int i = 0; i < CurrentPresets; i++) ... RecallPreset(i)
IN_loop ==
    /\ pc = "IN_loop"
    /\ IF loc.i < CurrentPresets
         THEN loc' = [loc EXCEPT !.preset = loc.i] /\ Call("RP_begin", "IN_check")
         ELSE loc' = loc /\ Goto("IN_default")
    /\ UNCHANGED <<irq, ram, dev, hist>>

\* faulty variant: a preset above MaximumCurrent is left as it is
IN_check_keeps ==
    /\ pc = "IN_check"
    /\ loc' = [loc EXCEPT !.data = 0]
    /\ Goto("IN_next")
    /\ UNCHANGED <<irq, ram, dev, hist>>

\* lines 847-850: a preset above MaximumCurrent is stored again as 0
IN_check ==
    /\ pc = "IN_check"
    /\ IF loc.data > MaximumCurrent
         THEN loc' = [loc EXCEPT !.value = 0, !.data = 0] /\ Call("SP_begin", "IN_next")
         ELSE loc' = [loc EXCEPT !.data = 0] /\ Goto("IN_next")
    /\ UNCHANGED <<irq, ram, dev, hist>>

\* i++
IN_next ==
    /\ pc = "IN_next"
    /\ loc' = [loc EXCEPT !.i = loc.i + 1]
    /\ Goto("IN_loop")
    /\ UNCHANGED <<irq, ram, dev, hist>>

\* faulty variant: the stored default is not corrected
IN_default_kept ==
    /\ pc = "IN_default"
    /\ loc' = NoLocals
    /\ Call("WZ", "Q_first")
    /\ UNCHANGED <<irq, ram, dev, hist>>

\* lines 852-855: the default is corrected, then the first wait starts
IN_default ==
    /\ pc = "IN_default"
    /\ eeprom' = IF eeprom.recall >= CurrentPresets THEN [eeprom EXCEPT !.recall = 0] ELSE eeprom
    /\ loc' = NoLocals
    /\ Call("WZ", "Q_first")
    /\ UNCHANGED <<irq, ram, pwm, hist>>

Seen(k) == [hist EXCEPT !.saw[k] = IF ZeroCrossingDetected THEN "edge" ELSE "timeout"]

\* faulty variant: a silent first wait is reported as missing alternate cycles
Q_noZeroCross_wrongCode ==
    /\ pc = "Q_first"
    /\ ~ZeroCrossingDetected
    /\ ErrorCode' = ErrorNoAltCycles
    /\ hist' = Seen(1)
    /\ Goto("Q_disable")
    /\ UNCHANGED <<irq, CurrentLimit, RecalledPreset, BackEMFcountermeasuresRequired,
                   DummyZeroCrossingIRQenable, ZeroCrossingTime, dev>>
    /\ loc' = [loc EXCEPT !.i = 0]

\* variant: in diagnostic mode a silent first wait is not an error
Q_noZeroCross_bypassed ==
    /\ pc = "Q_first"
    /\ ~ZeroCrossingDetected
    /\ ErrorCode' = IF DummyZeroCrossingIRQenable THEN ErrorNone ELSE ErrorNoZeroCross
    /\ hist' = Seen(1)
    /\ Goto("Q_disable")
    /\ UNCHANGED <<irq, CurrentLimit, RecalledPreset, BackEMFcountermeasuresRequired,
                   DummyZeroCrossingIRQenable, ZeroCrossingTime, dev>>
    /\ loc' = [loc EXCEPT !.i = 0]

\* lines 856 and 892-894: no edge at all
Q_noZeroCross ==
    /\ pc = "Q_first"
    /\ ~ZeroCrossingDetected
    /\ ErrorCode' = ErrorNoZeroCross
    /\ hist' = Seen(1)
    /\ Goto("Q_disable")
    /\ UNCHANGED <<irq, CurrentLimit, RecalledPreset, BackEMFcountermeasuresRequired,
                   DummyZeroCrossingIRQenable, ZeroCrossingTime, dev>>
    /\ loc' = [loc EXCEPT !.i = 0]

\* lines 856-861: an edge was seen; detach, clear the flag
Q_first ==
    /\ pc = "Q_first"
    /\ ZeroCrossingDetected
    /\ hist' = Seen(1)
    /\ loc' = [loc EXCEPT !.both = TRUE, !.i = 0]
    /\ zcAttach' = "none"
    /\ ZeroCrossingDetected' = FALSE
    /\ Goto("Q_rising")
    /\ UNCHANGED <<OutputEnable, EnableOutput, OvercurrentSensed, ocAttach, ram, dev>>

\* lines 862-863: attach on rising edges, wait
Q_rising ==
    /\ pc = "Q_rising"
    /\ zcAttach' = "RISING"
    /\ loc' = [loc EXCEPT !.i = 0]
    /\ Call("WZ", "Q_rising2")
    /\ UNCHANGED <<OutputEnable, EnableOutput, ZeroCrossingDetected, OvercurrentSensed,
                   ocAttach, ram, dev, hist>>

\* lines 864-865: the flag is cleared whatever the wait found, and a second wait starts
Q_rising2 ==
    /\ pc = "Q_rising2"
    /\ hist' = Seen(2)
    /\ ZeroCrossingDetected' = FALSE
    /\ loc' = [loc EXCEPT !.i = 0]
    /\ Call("WZ", "Q_risen")
    /\ UNCHANGED <<OutputEnable, EnableOutput, OvercurrentSensed, zcAttach, ocAttach,
                   ram, dev>>

\* lines 866-868: no rising edge in the second wait
Q_noRising ==
    /\ pc = "Q_risen"
    /\ ~ZeroCrossingDetected
    /\ hist' = Seen(3)
    /\ loc' = [loc EXCEPT !.both = FALSE, !.i = 0]
    /\ Goto("Q_decide")
    /\ UNCHANGED <<irq, ram, dev>>

\* lines 869-871: detach, clear the flag
Q_risen ==
    /\ pc = "Q_risen"
    /\ ZeroCrossingDetected
    /\ hist' = Seen(3)
    /\ zcAttach' = "none"
    /\ ZeroCrossingDetected' = FALSE
    /\ Goto("Q_falling")
    /\ UNCHANGED <<OutputEnable, EnableOutput, OvercurrentSensed, ocAttach, ram, dev>>
    /\ loc' = [loc EXCEPT !.i = 0]

\* lines 872-873: attach on falling edges, wait
Q_falling ==
    /\ pc = "Q_falling"
    /\ zcAttach' = "FALLING"
    /\ loc' = [loc EXCEPT !.i = 0]
    /\ Call("WZ", "Q_falling2")
    /\ UNCHANGED <<OutputEnable, EnableOutput, ZeroCrossingDetected, OvercurrentSensed,
                   ocAttach, ram, dev, hist>>

\* lines 874-876: clear the flag, StartTime = micros(), second wait
Q_falling2 ==
    /\ pc = "Q_falling2"
    /\ hist' = Seen(4)
    /\ ZeroCrossingDetected' = FALSE
    /\ loc' = [loc EXCEPT !.i = 0]
    /\ Call("WZ", "Q_fallen")
    /\ UNCHANGED <<OutputEnable, EnableOutput, OvercurrentSensed, zcAttach, ocAttach,
                   ram, dev>>

\* StopTime - StartTime after a wait of n polls, in uS
Elapsed(n) == n * MaxZeroCrossingTimeIncrement

\* lines 877-883: BothEdgesDetected, StopTime = micros(), detach, ZeroCrossingTime = StopTime
Q_fallen ==
    /\ pc = "Q_fallen"
    /\ hist' = [Seen(5) EXCEPT !.m = Elapsed(loc.i)]
    /\ loc' = [loc EXCEPT !.both = ZeroCrossingDetected, !.i = 0]
    /\ zcAttach' = "none"
    /\ ZeroCrossingTime' = Word(Elapsed(loc.i))
    /\ Goto("Q_decide")
    /\ UNCHANGED <<OutputEnable, EnableOutput, ZeroCrossingDetected, OvercurrentSensed, ocAttach,
                   CurrentLimit, RecalledPreset, BackEMFcountermeasuresRequired,
                   DummyZeroCrossingIRQenable, ErrorCode, dev>>

\* faulty variant: a short interval is reported as SINEWAVE ONLY even when an edge was missed
Classify_intervalFirst(BothEdgesDetected, time) ==
    IF time < SinewaveThreshold THEN ErrorSinewaveOnly
    ELSE IF ~BothEdgesDetected THEN ErrorNoAltCycles
    ELSE ErrorNone

\* faulty variant: the measured interval is not compared with the threshold
Classify_noThreshold(BothEdgesDetected, time) ==
    IF ~BothEdgesDetected THEN ErrorNoAltCycles ELSE ErrorNone

\* the error code lines 885-890 assign
Classify(BothEdgesDetected, time) ==
    IF BothEdgesDetected /\ time < SinewaveThreshold THEN ErrorSinewaveOnly
    ELSE IF ~BothEdgesDetected THEN ErrorNoAltCycles
    ELSE ErrorNone

\* lines 885-890
Q_decide ==
    /\ pc = "Q_decide"
    /\ ErrorCode' = Classify(loc.both, ZeroCrossingTime)
    /\ Goto("Q_disable")
    /\ UNCHANGED <<irq, CurrentLimit, RecalledPreset, BackEMFcountermeasuresRequired,
                   DummyZeroCrossingIRQenable, ZeroCrossingTime, dev, loc, hist>>

\* faulty variant: the triggers are left attached on the way to the verdict
Q_disable_skipped ==
    /\ pc = "Q_disable"
    /\ Goto("Q_verdict")
    /\ UNCHANGED <<irq, ram, dev, loc, hist>>

\* line 895
Q_disable ==
    /\ pc = "Q_disable"
    /\ Call("DI_detachZC", "Q_verdict")
    /\ UNCHANGED <<irq, ram, dev, loc, hist>>

\* lines 896-909: an error is displayed and the sketch halts
Q_halt ==
    /\ pc = "Q_verdict"
    /\ ErrorCode # ErrorNone
    /\ Goto("HALT")
    /\ UNCHANGED <<irq, ram, dev, loc, hist>>

\* lines 910-911: the default preset is recalled
B_recall ==
    /\ pc = "Q_verdict"
    /\ ErrorCode = ErrorNone
    /\ RecalledPreset' = eeprom.recall
    /\ loc' = [loc EXCEPT !.preset = eeprom.recall]
    /\ Call("RP_begin", "B_limit")
    /\ UNCHANGED <<irq, CurrentLimit, BackEMFcountermeasuresRequired,
                   DummyZeroCrossingIRQenable, ZeroCrossingTime, ErrorCode, dev, hist>>

\* faulty variant: the value read is dropped and CurrentLimit stays as setup() left it
B_limit_stale ==
    /\ pc = "B_limit"
    /\ loc' = [loc EXCEPT !.data = 0]
    /\ Call("EI_attachOC", "B_write")
    /\ UNCHANGED <<irq, ram, dev, hist>>

\* lines 911-912: CurrentLimit = the value read; EnableInterrupts()
B_limit ==
    /\ pc = "B_limit"
    /\ CurrentLimit' = loc.data
    /\ Call("EI_attachOC", "B_write")
    /\ UNCHANGED <<irq, RecalledPreset, BackEMFcountermeasuresRequired,
                   DummyZeroCrossingIRQenable, ZeroCrossingTime, ErrorCode, dev, hist>>
    /\ loc' = [loc EXCEPT !.data = 0]

\* line 913
B_write ==
    /\ pc = "B_write"
    /\ Call("WCL", "B_enable")
    /\ UNCHANGED <<irq, ram, dev, loc, hist>>

\* faulty variant: the load is requested on in diagnostic mode too
LoadRequest_unguarded(diagnostic, current) == HIGH

\* the value EnableOutput is given where the load is enabled (lines 922-924, 1143-1145)
LoadRequest(diagnostic, current) == IF diagnostic = FALSE THEN HIGH ELSE current

\* lines 922-925: the load is enabled unless in diagnostic mode; setup() returns
B_enable ==
    /\ pc = "B_enable"
    /\ EnableOutput' = LoadRequest(DummyZeroCrossingIRQenable, EnableOutput)
    /\ Goto("L_top")
    /\ UNCHANGED <<OutputEnable, ZeroCrossingDetected, OvercurrentSensed, zcAttach, ocAttach,
                   ram, dev>>
    /\ loc' = NoLocals
    /\ hist' = [hist EXCEPT !.saw = NoSaw, !.m = 0]

Checks ==
    \/ IN_loop \/ IN_check \/ IN_next \/ IN_default
    \/ Q_noZeroCross \/ Q_first \/ Q_rising \/ Q_rising2 \/ Q_noRising \/ Q_risen
    \/ Q_falling \/ Q_falling2 \/ Q_fallen \/ Q_decide \/ Q_disable \/ Q_halt
    \/ B_recall \/ B_limit \/ B_write \/ B_enable

(* ------------------------------- loop() -------------------------------- *)
\* lines 928-930 and 969: loop() starts; with no zero crossing flagged it goes
\* straight to the pushbutton test
L_top ==
    /\ pc = "L_top"
    /\ IF ZeroCrossingDetected
         THEN ZeroCrossingDetected' = FALSE /\ Goto("L_poll")
         ELSE ZeroCrossingDetected' = ZeroCrossingDetected /\ Goto("L_button")
    /\ UNCHANGED <<OutputEnable, EnableOutput, OvercurrentSensed, zcAttach, ocAttach,
                   ram, dev, loc, hist>>

\* values of micros() - ZeroCrossingStart, an unsigned long written as its
\* high and low words: 0, 10000, 20000, 20200 (within a half cycle, a full
\* cycle, just past it), 42949672 and 42949673 (around the overflow of the
\* multiplication by 100) and 4294967295
ElapsedInputs == {<<0, 0>>, <<0, 10000>>, <<0, 20000>>, <<0, 20200>>,
                  <<655, 23592>>, <<655, 23593>>, <<MaxWord, MaxWord>>}

\* lines 940-941: LoadPercentage *= 100 in an unsigned long, then
\* LoadPercentage /= ZeroCrossingTime.  The product is kept modulo 2^32 as two
\* words and divided byte by byte, most significant first.
Quotient32(elapsed, divisor) ==
    LET low == elapsed[2] * 100
        productLow == low % (2 ^ 16)
        productHigh == (elapsed[1] * 100 + (low \div (2 ^ 16))) % (2 ^ 16)
        t3 == productHigh \div 256
        t2 == (t3 % divisor) * 256 + (productHigh % 256)
        t1 == (t2 % divisor) * 256 + (productLow \div 256)
        t0 == (t1 % divisor) * 256 + (productLow % 256)
    IN  (((t3 \div divisor) * 256 + (t2 \div divisor)) * 256 + (t1 \div divisor)) * 256
           + (t0 \div divisor)

\* faulty variant: the quotient is displayed as it is
LoadPercentage_unclamped(elapsed, halfCycle) == Quotient32(elapsed, halfCycle)

\* lines 938-944: the quotient, at most 100
LoadPercentage(elapsed, halfCycle) ==
    IF Quotient32(elapsed, halfCycle) > 100 THEN 100 ELSE Quotient32(elapsed, halfCycle)

\* lines 931-951: one turn of the display loop that leaves it; with the
\* overcurrent flag set the percentage of the time elapsed is displayed, with
\* the zero-cross flag only, 100
L_poll ==
    /\ pc = "L_poll"
    /\ \E pressed \in BOOLEAN :
          IF pressed
            THEN hist' = hist /\ Goto("L_button")
            ELSE /\ OvercurrentSensed \/ ZeroCrossingDetected
                 /\ \E elapsed \in (IF OvercurrentSensed THEN ElapsedInputs ELSE {<<0, 0>>}) :
                       hist' = [hist EXCEPT !.reply =
                                  IF OvercurrentSensed
                                    THEN <<"percent", LoadPercentage(elapsed, ZeroCrossingTime), elapsed>>
                                    ELSE <<"percent", 100>>]
                 /\ Goto("L_update")
    /\ UNCHANGED <<irq, ram, dev, loc>>

\* lines 952-961: the once-per-second delay with the percentage on the display,
\* then both flags are cleared
L_update ==
    /\ pc = "L_update"
    /\ ZeroCrossingDetected' = FALSE
    /\ OvercurrentSensed' = FALSE
    /\ hist' = [hist EXCEPT !.reply = <<"-">>]
    /\ Goto("L_wait")
    /\ UNCHANGED <<OutputEnable, EnableOutput, zcAttach, ocAttach, ram, dev, loc>>

\* lines 962-965: while (ZeroCrossingDetected == false && button up) OvercurrentSensed = false
L_wait ==
    /\ pc = "L_wait"
    /\ \E pressed \in BOOLEAN :
          IF ZeroCrossingDetected \/ pressed
            THEN OvercurrentSensed' = OvercurrentSensed /\ Goto("L_button")
            ELSE OvercurrentSensed' = FALSE /\ Goto("L_wait")
    /\ UNCHANGED <<OutputEnable, EnableOutput, ZeroCrossingDetected, zcAttach, ocAttach,
                   ram, dev, loc, hist>>

\* line 969 with the pushbutton up: loop() returns and is called again
L_idle ==
    /\ pc = "L_button"
    /\ Goto("L_top")
    /\ UNCHANGED <<irq, ram, dev, hist>>
    /\ loc' = NoLocals

\* faulty variant: the first press already withdraws the load request
L_button_disabling ==
    /\ pc = "L_button"
    /\ hist.npress > 0
    /\ hist' = [hist EXCEPT !.npress = hist.npress - 1,
                            !.before = <<RecalledPreset, CurrentLimit, pwm, eeprom>>]
    /\ loc' = [loc EXCEPT !.hold = 11]
    /\ IF BackEMFcountermeasuresRequired = TRUE
         THEN EnableOutput' = LOW /\ Goto("M_grace")
         ELSE EnableOutput' = EnableOutput /\ Goto("M_held")
    /\ UNCHANGED <<OutputEnable, ZeroCrossingDetected, OvercurrentSensed, zcAttach, ocAttach,
                   ram, dev>>

\* lines 969-975 and 987-989: pushbutton down, WhatToDo = 11
L_button ==
    /\ pc = "L_button"
    /\ hist.npress > 0
    /\ hist' = [hist EXCEPT !.npress = hist.npress - 1,
                            !.before = <<RecalledPreset, CurrentLimit, pwm, eeprom>>]
    /\ loc' = [loc EXCEPT !.hold = 11]
    /\ IF BackEMFcountermeasuresRequired = TRUE THEN Goto("M_grace") ELSE Goto("M_held")
    /\ UNCHANGED <<irq, ram, dev>>

\* line 979: PushbuttonTimeout(3); without a second press WhatToDo stays 11
M_grace ==
    /\ pc = "M_grace"
    /\ \E PushbuttonPressTimeout \in BOOLEAN :
          IF PushbuttonPressTimeout = FALSE
            THEN hist' = hist /\ Goto("M_disable")
            ELSE hist' = [hist EXCEPT !.act = "none"] /\ Goto("M_menu")
    /\ UNCHANGED <<irq, ram, dev, loc>>

\* faulty variant: the menu is entered with the load request as it was
M_disable_skipped ==
    /\ pc = "M_disable"
    /\ Goto("M_held")
    /\ UNCHANGED <<irq, ram, dev, loc, hist>>

\* faulty variant: the foreground turns the output off itself at the second press
M_disable_driving ==
    /\ pc = "M_disable"
    /\ EnableOutput' = LOW
    /\ OutputEnable' = LOW
    /\ Goto("M_held")
    /\ UNCHANGED <<ZeroCrossingDetected, OvercurrentSensed, zcAttach, ocAttach,
                   ram, dev, loc, hist>>

\* line 980: disable load to prevent back EMF
M_disable ==
    /\ pc = "M_disable"
    /\ EnableOutput' = LOW
    /\ Goto("M_held")
    /\ UNCHANGED <<OutputEnable, ZeroCrossingDetected, OvercurrentSensed, zcAttach, ocAttach,
                   ram, dev, loc, hist>>

\* lines 984 and 988: WhatToDo = TimePushbuttonHeld()
M_held ==
    /\ pc = "M_held"
    /\ \E h \in Holds : loc' = [loc EXCEPT !.hold = h]
    /\ Goto("M_menu")
    /\ UNCHANGED <<irq, ram, dev, hist>>

\* lines 991-993: select preset
M_select ==
    /\ pc = "M_menu"
    /\ loc.hold >= 0 /\ loc.hold <= 2
    /\ loc' = [loc EXCEPT !.hold = 0, !.OldPreset = RecalledPreset, !.OldPWMvalue = CurrentLimit]
    /\ Goto("BR_next")
    /\ UNCHANGED <<irq, ram, dev, hist>>

\* lines 995-1000: next preset, RecallPreset(RecalledPreset)
BR_next ==
    /\ pc = "BR_next"
    /\ LET next == IF Byte(RecalledPreset + 1) >= CurrentPresets THEN 0 ELSE Byte(RecalledPreset + 1)
       IN /\ RecalledPreset' = next
          /\ loc' = [loc EXCEPT !.preset = next]
    /\ Call("RP_begin", "BR_show")
    /\ UNCHANGED <<irq, CurrentLimit, BackEMFcountermeasuresRequired,
                   DummyZeroCrossingIRQenable, ZeroCrossingTime, ErrorCode, dev, hist>>

\* line 1000: CurrentLimit = the value read
BR_show ==
    /\ pc = "BR_show"
    /\ CurrentLimit' = loc.data
    /\ Goto("BR_wait")
    /\ UNCHANGED <<irq, RecalledPreset, BackEMFcountermeasuresRequired,
                   DummyZeroCrossingIRQenable, ZeroCrossingTime, ErrorCode, dev, hist>>
    /\ loc' = [loc EXCEPT !.data = 0]

\* lines 1004-1028: wait for a press; in diagnostic mode a sensed overcurrent
\* is shown and its flag cleared
BR_wait ==
    /\ pc = "BR_wait"
    /\ OvercurrentSensed' = (IF DummyZeroCrossingIRQenable = TRUE THEN FALSE ELSE OvercurrentSensed)
    /\ \E pressed \in BOOLEAN : IF pressed THEN Goto("BR_held") ELSE Goto("BR_wait")
    /\ UNCHANGED <<OutputEnable, EnableOutput, ZeroCrossingDetected, zcAttach, ocAttach,
                   ram, dev, loc, hist>>

\* line 1029 with a hold of 0-2 seconds: the while loop goes round
BR_again ==
    /\ pc = "BR_held"
    /\ \E h \in Holds : h <= 2
    /\ loc' = loc
    /\ Goto("BR_next")
    /\ UNCHANGED <<irq, ram, dev, hist>>

\* faulty variant: the recalled limit is taken without being written to the PWM
BR_recall_unapplied ==
    /\ pc = "BR_held"
    /\ \E h \in Holds : h > 2 /\ h <= 5
    /\ loc' = [loc EXCEPT !.hold = 11]
    /\ hist' = [hist EXCEPT !.act = "recall"]
    /\ Goto("M_menu")
    /\ UNCHANGED <<irq, ram, dev>>

\* lines 1030-1035: recall
BR_recall ==
    /\ pc = "BR_held"
    /\ \E h \in Holds : h > 2 /\ h <= 5
    /\ loc' = [loc EXCEPT !.hold = 11]
    /\ hist' = [hist EXCEPT !.act = "recall"]
    /\ Call("WCL", "M_menu")
    /\ UNCHANGED <<irq, ram, dev>>

\* faulty variant: the exit restores the preset number but not the current
BR_cancel_keeps ==
    /\ pc = "BR_held"
    /\ \E h \in Holds : h > 5
    /\ RecalledPreset' = loc.OldPreset
    /\ CurrentLimit' = CurrentLimit
    /\ loc' = [loc EXCEPT !.hold = 11]
    /\ hist' = [hist EXCEPT !.act = "cancel"]
    /\ Goto("M_menu")
    /\ UNCHANGED <<irq, BackEMFcountermeasuresRequired, DummyZeroCrossingIRQenable,
                   ZeroCrossingTime, ErrorCode, dev>>

\* lines 1036-1043: exit, the previous preset and current are restored
BR_cancel ==
    /\ pc = "BR_held"
    /\ \E h \in Holds : h > 5
    /\ RecalledPreset' = loc.OldPreset
    /\ CurrentLimit' = loc.OldPWMvalue
    /\ loc' = [loc EXCEPT !.hold = 11]
    /\ hist' = [hist EXCEPT !.act = "cancel"]
    /\ Goto("M_menu")
    /\ UNCHANGED <<irq, BackEMFcountermeasuresRequired, DummyZeroCrossingIRQenable,
                   ZeroCrossingTime, ErrorCode, dev>>

\* lines 1066-1083: a number into its decimal places, most significant first;
\* each place counts the subtractions of factor in a uint8_t
RECURSIVE Places(_, _, _)
Places(temp, factor, count) ==
    IF count = 0 THEN <<>>
    ELSE <<Byte(temp \div factor)>> \o Places(temp % factor, factor \div 10, count - 1)

\* lines 1093-1100: the places into a single number, in word arithmetic
RECURSIVE Composed(_, _, _)
Composed(DigitTemp, factor, sum) ==
    IF DigitTemp = <<>> THEN sum
    ELSE Composed(Tail(DigitTemp), factor \div 10, Word(sum + Word(Head(DigitTemp) * factor)))

\* faulty variant: no roll-over, so a tenth increment carries into the next place
Incremented_carrying(digit) == Byte(digit + 1)

\* lines 1088-1091: roll over to zero instead of carrying over
Incremented(digit) == IF Byte(digit + 1) > 9 THEN 0 ELSE Byte(digit + 1)

\* faulty variant: an increment that would exceed the maximum clamps to it
IncrementDigitIn_clamped(limit, SelectedDigit, maximum, largest, count) ==
    LET DigitTemp == Places(limit, largest, count)
        up == [DigitTemp EXCEPT ![SelectedDigit + 1] = Incremented(DigitTemp[SelectedDigit + 1])]
    IN IF Composed(up, largest, 0) <= maximum THEN Composed(up, largest, 0) ELSE maximum

\* lines 1087-1108: the CurrentLimit an increment of the selected place leaves;
\* -1 when the while (true) of line 1092 would never end
IncrementDigitIn(limit, SelectedDigit, maximum, largest, count) ==
    LET DigitTemp == Places(limit, largest, count)
        up == [DigitTemp EXCEPT ![SelectedDigit + 1] = Incremented(DigitTemp[SelectedDigit + 1])]
        zero == [DigitTemp EXCEPT ![SelectedDigit + 1] = 0]
    IN IF Composed(up, largest, 0) <= maximum
         THEN Composed(up, largest, 0)
       ELSE IF Composed(zero, largest, 0) <= maximum
         THEN Composed(zero, largest, 0)
       ELSE -1

\* the increment in the configuration of the model
IncrementDigit(limit, SelectedDigit) ==
    IncrementDigitIn(limit, SelectedDigit, MaximumCurrent, LargestDigitIncrement, CurrentDigitCount)

\* lines 1046-1049: program preset
M_program ==
    /\ pc = "M_menu"
    /\ loc.hold > 2 /\ loc.hold <= 5
    /\ loc' = [loc EXCEPT !.hold = 0, !.SelectedDigit = 0]
    /\ Goto("ED_wait")
    /\ UNCHANGED <<irq, ram, dev, hist>>

\* lines 1084-1108: a hold of 0-2 seconds increments the selected digit
ED_increment ==
    /\ pc = "ED_wait"
    /\ \E h \in Holds : h <= 2
    /\ loc' = loc
    /\ LET new == IncrementDigit(CurrentLimit, loc.SelectedDigit)
       IN IF new >= 0
            THEN CurrentLimit' = new /\ Goto("ED_wait")
            ELSE CurrentLimit' = CurrentLimit /\ Goto("ED_hang")
    /\ UNCHANGED <<irq, RecalledPreset, BackEMFcountermeasuresRequired,
                   DummyZeroCrossingIRQenable, ZeroCrossingTime, ErrorCode, dev, hist>>

\* lines 1109-1116: a hold of 3-5 seconds selects the next digit
ED_digit ==
    /\ pc = "ED_wait"
    /\ \E h \in Holds : h > 2 /\ h <= 5 /\ loc' = [loc EXCEPT
              !.SelectedDigit = IF loc.SelectedDigit + 1 >= CurrentDigitCount
                                  THEN 0 ELSE loc.SelectedDigit + 1]
    /\ Goto("ED_wait")
    /\ UNCHANGED <<irq, ram, dev, hist>>

\* lines 1117-1122: a longer hold sets the current limit and exits
ED_exit ==
    /\ pc = "ED_wait"
    /\ \E h \in Holds : h > 5
    /\ loc' = [loc EXCEPT !.hold = 11]
    /\ hist' = [hist EXCEPT !.act = "program"]
    /\ Call("WCL", "M_menu")
    /\ UNCHANGED <<irq, ram, dev>>

\* faulty variant: the preset is always stored in the first memory
M_store_firstSlot ==
    /\ pc = "M_menu"
    /\ loc.hold > 5 /\ loc.hold <= 9
    /\ loc' = [loc EXCEPT !.hold = 0, !.value = CurrentLimit, !.preset = 0]
    /\ hist' = [hist EXCEPT !.act = "store"]
    /\ Call("SP_begin", "M_exit")
    /\ UNCHANGED <<irq, ram, dev>>

\* lines 1125-1128: store preset
M_store ==
    /\ pc = "M_menu"
    /\ loc.hold > 5 /\ loc.hold <= 9
    /\ loc' = [loc EXCEPT !.hold = 0, !.value = CurrentLimit, !.preset = RecalledPreset]
    /\ hist' = [hist EXCEPT !.act = "store"]
    /\ Call("SP_begin", "M_exit")
    /\ UNCHANGED <<irq, ram, dev>>

\* lines 1130-1132: assign preset as power on default
M_default ==
    /\ pc = "M_menu"
    /\ loc.hold = 10
    /\ hist' = [hist EXCEPT !.act = "default"]
    /\ Call("DI_detachZC", "M_defaultWrite")
    /\ UNCHANGED <<irq, ram, dev>>
    /\ loc' = [loc EXCEPT !.hold = 0]

\* lines 1133-1134
M_defaultWrite ==
    /\ pc = "M_defaultWrite"
    /\ eeprom' = [eeprom EXCEPT !.recall = RecalledPreset]
    /\ Call("EI_attachOC", "M_exit")
    /\ UNCHANGED <<irq, ram, pwm, loc, hist>>

\* faulty variant: WhatToDo = 11 falls into store preset (> 5 with no upper limit)
M_none_storing ==
    /\ pc = "M_menu"
    /\ loc.hold > 10
    /\ loc' = [loc EXCEPT !.hold = 0, !.value = CurrentLimit, !.preset = RecalledPreset]
    /\ Call("SP_begin", "M_exit")
    /\ UNCHANGED <<irq, ram, dev, hist>>

\* lines 1137-1140: WhatToDo = 11
M_none ==
    /\ pc = "M_menu"
    /\ loc.hold > 10
    /\ Goto("M_exit")
    /\ UNCHANGED <<irq, ram, dev, hist>>
    /\ loc' = [loc EXCEPT !.hold = 0]

\* lines 1142-1146: the load is enabled again unless in diagnostic mode
M_exit ==
    /\ pc = "M_exit"
    /\ EnableOutput' = (IF BackEMFcountermeasuresRequired = TRUE
                          THEN LoadRequest(DummyZeroCrossingIRQenable, EnableOutput)
                          ELSE EnableOutput)
    /\ hist' = [hist EXCEPT !.act = "-", !.before = <<>>]
    /\ Goto("M_clear")
    /\ UNCHANGED <<OutputEnable, ZeroCrossingDetected, OvercurrentSensed, zcAttach, ocAttach,
                   ram, dev, loc>>

\* line 1147
M_clear ==
    /\ pc = "M_clear"
    /\ ZeroCrossingDetected' = FALSE
    /\ Goto("M_clearOC")
    /\ UNCHANGED <<OutputEnable, EnableOutput, OvercurrentSensed, zcAttach, ocAttach,
                   ram, dev, loc, hist>>

\* line 1148
M_clearOC ==
    /\ pc = "M_clearOC"
    /\ OvercurrentSensed' = FALSE
    /\ Goto("M_sync")
    /\ UNCHANGED <<OutputEnable, EnableOutput, ZeroCrossingDetected, zcAttach, ocAttach,
                   ram, dev, loc, hist>>

\* faulty variant: loop() returns without the wait for a zero crossing
M_sync_unwaited ==
    /\ pc = "M_sync"
    /\ OvercurrentSensed' = OvercurrentSensed
    /\ Goto("L_top")
    /\ UNCHANGED <<OutputEnable, EnableOutput, ZeroCrossingDetected, zcAttach, ocAttach,
                   ram, dev, hist>>
    /\ loc' = NoLocals

\* lines 1149-1152: while (ZeroCrossingDetected == false) OvercurrentSensed = false;
\* then loop() returns
M_sync ==
    /\ pc = "M_sync"
    /\ IF ZeroCrossingDetected
         THEN OvercurrentSensed' = OvercurrentSensed /\ Goto("L_top")
         ELSE OvercurrentSensed' = FALSE /\ Goto("M_sync")
    /\ UNCHANGED <<OutputEnable, EnableOutput, ZeroCrossingDetected, zcAttach, ocAttach,
                   ram, dev, hist>>
    /\ loc' = IF ZeroCrossingDetected THEN NoLocals ELSE loc

Loop ==
    \/ L_top \/ L_poll \/ L_update \/ L_wait \/ L_idle \/ L_button
    \/ M_grace \/ M_disable \/ M_held
    \/ M_select \/ BR_next \/ BR_show \/ BR_wait \/ BR_again \/ BR_recall \/ BR_cancel
    \/ M_program \/ ED_increment \/ ED_digit \/ ED_exit
    \/ M_store \/ M_default \/ M_defaultWrite \/ M_none
    \/ M_exit \/ M_clear \/ M_clearOC \/ M_sync

(* --------------------------- specification ----------------------------- *)
Foreground == Subroutines \/ Dispatch \/ Session \/ Checks \/ Loop

Next == Foreground \/ ZeroCrossEdge \/ OvercurrentEdge

Spec == Init /\ [][Next]_vars

\* setup() alone with the two handlers, from power-up until it halts or
\* returns; setup() is never starved: it runs whenever no handler does
Setup == Subroutines \/ Dispatch \/ Session \/ Checks
SetupNext == Setup \/ ZeroCrossEdge \/ OvercurrentEdge
SetupSpec == Init /\ [][SetupNext]_vars /\ WF_vars(Setup)

(* ------------- the current arithmetic of the sketch as written -------------- *)
\* program preset has been chosen in the menu with any CurrentLimit in range
\* applied, the first digit selected
ArithInit ==
    /\ pc = "ED_wait"
    /\ stack = <<>>
    /\ OutputEnable = LOW
    /\ EnableOutput = LOW
    /\ ZeroCrossingDetected = FALSE
    /\ OvercurrentSensed = FALSE
    /\ zcAttach = "CHANGE"
    /\ ocAttach = TRUE
    /\ CurrentLimit \in 0 .. SourceMaximumCurrent
    /\ RecalledPreset = 0
    /\ BackEMFcountermeasuresRequired = TRUE
    /\ DummyZeroCrossingIRQenable = FALSE
    /\ ZeroCrossingTime = 0
    /\ ErrorCode = ErrorNone
    /\ pwm = SourceMaximumCurrent + 1
    /\ eeprom = [preset |-> [k \in Presets |-> 0], recall |-> 0, backemf |-> 1]
    /\ loc = NoLocals
    /\ hist = [saw |-> NoSaw, m |-> 0, ncmd |-> 0, cmd |-> <<"-">>, npress |-> MaxPresses, reply |-> <<"-">>,
               act |-> "-", before |-> <<>>]

\* lines 1087-1108 with MaximumCurrent 10000: a hold of 0-2 seconds; the history
\* keeps the value the increment started from
ArithIncrement ==
    /\ pc = "ED_wait"
    /\ LET new == IncrementDigitIn(CurrentLimit, loc.SelectedDigit, SourceMaximumCurrent,
                                   SourceLargestDigitIncrement, SourceCurrentDigitCount)
       IN IF new >= 0
            THEN CurrentLimit' = new /\ Goto("ED_wait")
            ELSE CurrentLimit' = CurrentLimit /\ Goto("ED_hang")
    /\ hist' = [hist EXCEPT !.reply = <<"increment", CurrentLimit>>]
    /\ UNCHANGED <<irq, RecalledPreset, BackEMFcountermeasuresRequired,
                   DummyZeroCrossingIRQenable, ZeroCrossingTime, ErrorCode, dev, loc>>

\* lines 1109-1116 with CurrentDigitCount 5: a hold of 3-5 seconds
ArithDigit ==
    /\ pc = "ED_wait"
    /\ loc' = [loc EXCEPT !.SelectedDigit = IF loc.SelectedDigit + 1 >= SourceCurrentDigitCount
                                              THEN 0 ELSE loc.SelectedDigit + 1]
    /\ hist' = [hist EXCEPT !.reply = <<"-">>]
    /\ Goto("ED_wait")
    /\ UNCHANGED <<irq, ram, dev>>

\* lines 1117-1121 and 313-315 with MaximumCurrent 10000: a longer hold writes the current limit
ArithWrite ==
    /\ pc = "ED_wait"
    /\ pwm' = DutyCodeIn(CurrentLimit, SourceMaximumCurrent)
    /\ hist' = [hist EXCEPT !.reply = <<"-">>]
    /\ Goto("M_menu")
    /\ UNCHANGED <<irq, ram, eeprom, loc>>

ArithNext == ArithIncrement \/ ArithDigit \/ ArithWrite
ArithSpec == ArithInit /\ [][ArithNext]_vars

(* ------------------- loop() from the return of setup() ------------------ *)
\* setup() has returned: the mains passed the checks, the presets and the
\* default have been range-checked (lines 845-854) and the default preset is
\* loaded and written (lines 910-913); the flag is the stored one (lines
\* 463-467, no temporary toggle); the output has been LOW throughout
\* setup() and the load is requested unless in diagnostic mode (lines 922-924).
\* presses is the number of presses loop() will serve.
MenuInit(presses) ==
    /\ pc = "L_top"
    /\ stack = <<>>
    /\ OutputEnable = LOW
    /\ DummyZeroCrossingIRQenable \in BOOLEAN
    /\ EnableOutput = (IF DummyZeroCrossingIRQenable THEN LOW ELSE HIGH)
    /\ ZeroCrossingDetected \in BOOLEAN
    /\ OvercurrentSensed \in BOOLEAN
    /\ zcAttach = "CHANGE"
    /\ ocAttach = TRUE
    /\ BackEMFcountermeasuresRequired \in BOOLEAN
    /\ ZeroCrossingTime = Word(Elapsed(PollStride))
    /\ ErrorCode = ErrorNone
    /\ \E p \in [Presets -> {0, MaximumCurrent}], r \in Presets :
          /\ eeprom = [preset |-> p, recall |-> r,
                       backemf |-> IF BackEMFcountermeasuresRequired THEN 1 ELSE 0]
          /\ RecalledPreset = r
          /\ CurrentLimit = p[r]
          /\ pwm = MaximumCurrent + 1 - p[r]
    /\ loc = NoLocals
    /\ hist = [saw |-> NoSaw, m |-> 0, ncmd |-> 0, cmd |-> <<"-">>,
               npress |-> presses, reply |-> <<"-">>, act |-> "-", before |-> <<>>]

\* loop() and the functions it calls; loop() is never starved: it runs
\* whenever no handler does
Menu ==
    \/ Loop
    \/ DI_detachZC \/ DI_low \/ DI_detachOC \/ EI_attachOC \/ EI_attachZC
    \/ RP_begin \/ RP_read \/ SP_begin \/ SP_write \/ WCL
MenuNext == Menu \/ ZeroCrossEdge \/ OvercurrentEdge
\* loop() with one press more than Spec serves after a boot
MenuSpec == MenuInit(MaxPresses + 1) /\ [][MenuNext]_vars /\ WF_vars(Menu)

\* loop() with the presses of Spec
ExitSpec == MenuInit(MaxPresses) /\ [][MenuNext]_vars /\ WF_vars(Menu)

(* ------------------------------ vocabulary ----------------------------- *)
\* the statement of setup() or loop() in progress, looking through calls
Where == IF stack = <<>> THEN pc ELSE stack[Len(stack)]

LoopLabels == {"L_top", "L_poll", "L_update", "L_wait", "L_button", "M_grace", "M_disable",
               "M_held", "M_menu", "BR_next", "BR_show", "BR_wait", "BR_held", "ED_wait",
               "ED_hang", "M_defaultWrite", "M_exit", "M_clear", "M_clearOC", "M_sync"}

\* loop() is running: setup() returned without an error
Normal == Where \in LoopLabels

\* setup() is running and has not halted
Booting == ~Normal /\ pc # "HALT"

\* calibration/diagnostic mode was chosen at power-up, or EXIT DIAGNOSTICS was given
CalibrationLabels == {"CAL_dis", "CAL_hold", "CAL_act", "CAL_dummy", "BS_outer", "BS_inner",
                      "BS_check", "BS_range"}
DiagnosticPosture == DummyZeroCrossingIRQenable \/ Where \in CalibrationLabels

\* the mains checks have assigned their verdict and setup() has not returned
Decided == pc = "Q_disable" \/ Where \in {"Q_verdict", "B_limit", "B_write", "B_enable", "HALT"}

TriggersDisabled == zcAttach = "none" /\ ~ocAttach

(* -------------------------------- claims -------------------------------- *)
\* C1: under any interleaving, a run of the overcurrent handler leaves the
\* actuator output LOW, and the output goes from LOW to HIGH only in a run of the
\* zero-cross handler, and only when the foreground's request EnableOutput is
\* HIGH (so after an overcurrent it stays LOW until the next zero crossing).
C1_GateRisesOnlyAtZeroCross ==
    [][ /\ (OvercurrentEdge => OutputEnable' = LOW)
        /\ ((OutputEnable = LOW /\ OutputEnable' = HIGH) => (ZeroCrossEdge /\ EnableOutput = HIGH))
      ]_vars

\* the overcurrent handler has cut the output while the load is requested on
W_C1 == Normal /\ OvercurrentSensed /\ EnableOutput = HIGH /\ OutputEnable = LOW

\* C2: from power-up until setup() has returned with no error, the request
\* EnableOutput and the actuator output are LOW, on every path through setup()
\* and under every pattern of zero-cross and overcurrent events.
C2_GateOffWhileBooting == Booting => (EnableOutput = LOW /\ OutputEnable = LOW)

\* both handlers have run inside the comparator test of the serial session
W_C2 == pc = "CT_loop" /\ OvercurrentSensed /\ ZeroCrossingDetected

\* C3: an error found by the mains checks is terminal: both triggers are
\* detached and the output is LOW before the halt, nothing changes from then on,
\* and loop() is never entered.
C3_FaultIsTerminal ==
    /\ []((ErrorCode # ErrorNone /\ Where \in {"Q_verdict", "HALT"} /\ stack = <<>>)
            => (TriggersDisabled /\ OutputEnable = LOW /\ EnableOutput = LOW))
    /\ [](pc = "HALT" => ErrorCode # ErrorNone)
    /\ [](Normal => ErrorCode = ErrorNone)
    /\ [][pc = "HALT" => UNCHANGED vars]_vars

\* halted on an error after the overcurrent handler had run during setup()
W_C3 == pc = "HALT" /\ ErrorCode # ErrorNone /\ OvercurrentSensed

\* C4: once in the diagnostic posture, neither the request EnableOutput nor the
\* actuator output is ever HIGH again, whatever the pushbutton and the
\* handlers do.
C4_DiagnosticKeepsLoadOff == DiagnosticPosture => (EnableOutput = LOW /\ OutputEnable = LOW)

\* in diagnostic mode with countermeasures on, the menu has just run its re-enable code
W_C4 == DummyZeroCrossingIRQenable /\ BackEMFcountermeasuresRequired /\ pc = "M_clear"

\* C5: whenever the overcurrent trigger is detached the actuator output is LOW,
\* the zero-cross trigger is never attached while the overcurrent trigger is
\* detached, and DisableInterrupts() has driven the output LOW by the time it
\* detaches the overcurrent trigger.
C5_FailSafeGating ==
    /\ (~ocAttach => OutputEnable = LOW)
    /\ (zcAttach # "none" => ocAttach)
    /\ (pc = "DI_detachOC" => OutputEnable = LOW)

\* a critical section entered from the menu while the load is requested on
W_C5 == pc = "M_defaultWrite" /\ EnableOutput = HIGH /\ TriggersDisabled

\* C6: if the first wait ends with no zero crossing flagged, the error code is
\* ErrorNoZeroCross and setup() goes on to the halt only.
C6_NoInitialEdge ==
    hist.saw[1] = "timeout" =>
        /\ hist.saw = [NoSaw EXCEPT ![1] = "timeout"]
        /\ ErrorCode = ErrorNoZeroCross
        /\ (pc = "Q_disable" \/ Where \in {"Q_verdict", "HALT"})

W_C6 == pc = "HALT" /\ hist.saw[1] = "timeout" /\ ErrorCode = ErrorNoZeroCross

\* C7 as claimed: after an initial edge, a timeout of any wait made while
\* attached on rising edges or on falling edges gives ErrorNoAltCycles.
C7_AnyWaitTimeout ==
    (Decided /\ hist.saw[1] = "edge" /\ \E k \in 2 .. 5 : hist.saw[k] = "timeout")
        => ErrorCode = ErrorNoAltCycles

\* C7, amended: after an initial edge, a timeout of the second wait made while
\* attached on rising edges, or of the second wait made while attached on
\* falling edges, gives ErrorNoAltCycles whatever the interval measured; the
\* first wait of either pair only synchronises, and its outcome is not read.
C7_SecondWaitTimeout ==
    (Decided /\ hist.saw[1] = "edge" /\ (hist.saw[3] = "timeout" \/ hist.saw[5] = "timeout"))
        => ErrorCode = ErrorNoAltCycles

\* halted because the second falling-edge wait timed out
W_C7 == pc = "HALT" /\ hist.saw[1] = "edge" /\ hist.saw[3] = "edge" /\ hist.saw[5] = "timeout"
        /\ ErrorCode = ErrorNoAltCycles

\* every edge the checks require was seen
AllEdgesSeen == hist.saw[1] = "edge" /\ hist.saw[3] = "edge" /\ hist.saw[5] = "edge"

\* C8: when every required edge was seen, the interval m measured by the last
\* wait decides: m >= 75% of the nominal half period gives ErrorNone with
\* ZeroCrossingTime = m, m below it gives ErrorSinewaveOnly; the error code is
\* ErrorNone until the verdict and does not change after it.
C8_ThresholdDecides ==
    /\ []((Decided /\ AllEdgesSeen /\ hist.m * 100 >= 75 * ((1000000 \div MainsFrequency) \div 2))
            => (ErrorCode = ErrorNone /\ ZeroCrossingTime = hist.m))
    /\ []((Decided /\ AllEdgesSeen /\ hist.m * 100 < 75 * ((1000000 \div MainsFrequency) \div 2))
            => ErrorCode = ErrorSinewaveOnly)
    /\ []((Booting /\ ~Decided) => ErrorCode = ErrorNone)
    /\ [][Decided => ErrorCode' = ErrorCode]_vars

\* the checks passed with a measured interval stored
W_C8 == pc = "Q_verdict" /\ AllEdgesSeen /\ ErrorCode = ErrorNone
        /\ ZeroCrossingTime = hist.m /\ hist.m >= SinewaveThreshold

\* the mains checks are in progress
Qualifying == Where \in {"Q_first", "Q_rising", "Q_rising2", "Q_risen", "Q_falling",
                         "Q_falling2", "Q_fallen", "Q_decide"} \/ pc = "Q_disable"

\* C9: the mains checks always end, in the halt or in loop(), whatever edges
\* arrive or fail to arrive: every wait stops at its bound of polls.
C9_QualifierTerminates ==
    /\ [](pc = "WZ" => loc.i < MaxZeroCrossingTime + PollStride)
    /\ (Qualifying ~> (pc = "HALT" \/ Normal))

\* a wait has run to its bound with no zero crossing flagged
W_C9 == pc = "WZ" /\ Qualifying /\ loc.i >= MaxZeroCrossingTime /\ ~ZeroCrossingDetected

C11_CurrentLimitInDomain ==
    /\ [](pwm \in 1 .. MaximumCurrent + 1)
    /\ [](pc \in {"WCL", "WCL_sweep"} => CurrentLimit \in 0 .. MaximumCurrent)
    /\ [](pc = "SP_write" => loc.value \in 0 .. MaximumCurrent)
    /\ [][\A k \in Presets : eeprom'.preset[k] # eeprom.preset[k]
                               => eeprom'.preset[k] \in 0 .. MaximumCurrent]_vars

\* the menu stores a nonzero CurrentLimit that the boot load brought in
W_C11 == Normal /\ pc = "SP_write" /\ loc.value > 0 /\ loc.value = CurrentLimit
         /\ pwm = MaximumCurrent + 1 - CurrentLimit

\* C12: with MaximumCurrent 10000, for every v in 0 .. MaximumCurrent
\* WriteCurrentLimit() writes MaximumCurrent + 1 - v to the PWM, with no
\* 16-bit wrap-around (the code lies in 1 .. MaximumCurrent + 1), and the code
\* of v + 1 is below the code of v.
C12_DutyCodeLaw ==
    /\ [][ArithWrite => /\ pwm' = SourceMaximumCurrent + 1 - CurrentLimit
                        /\ pwm' \in 1 .. SourceMaximumCurrent + 1]_vars
    /\ []((CurrentLimit < SourceMaximumCurrent)
            => DutyCodeIn(CurrentLimit + 1, SourceMaximumCurrent)
                 < DutyCodeIn(CurrentLimit, SourceMaximumCurrent))
    /\ [](CurrentLimit = 0 => DutyCodeIn(CurrentLimit, SourceMaximumCurrent) = SourceMaximumCurrent + 1)
    /\ [](CurrentLimit = SourceMaximumCurrent => DutyCodeIn(CurrentLimit, SourceMaximumCurrent) = 1)

\* 2500 mA has been written as duty code 7501
W_C12 == pc = "M_menu" /\ CurrentLimit = 2500 /\ pwm = 7501

\* C13: the range check of lines 845-851 leaves 0 in every preset cell that held
\* more than MaximumCurrent and leaves every other preset cell as it was: each
\* of its steps changes a preset cell only from a value above MaximumCurrent to
\* 0, the cells it has passed and, at its end, all cells hold at most
\* MaximumCurrent, and it writes neither the default index nor the
\* countermeasure flag.
C13_IntegrityPass ==
    /\ [](Where \in {"IN_loop", "IN_check", "IN_next"} =>
            (\A k \in Presets : k < loc.i => eeprom.preset[k] <= MaximumCurrent))
    /\ [](pc = "IN_default" => \A k \in Presets : eeprom.preset[k] <= MaximumCurrent)
    /\ [][(Where \in {"IN_loop", "IN_check", "IN_next"}) =>
            (\A k \in Presets : (eeprom'.preset[k] = eeprom.preset[k]
               \/ (eeprom.preset[k] > MaximumCurrent /\ eeprom'.preset[k] = 0)))]_vars
    /\ [][(Where \in {"IN_loop", "IN_check", "IN_next"}) =>
            (eeprom'.recall = eeprom.recall /\ eeprom'.backemf = eeprom.backemf)]_vars

\* the pass is about to zero the last cell, which holds 0xFFFF, having left an
\* in-range cell alone
W_C13 == pc = "SP_write" /\ Where = "IN_next" /\ loc.value = 0
         /\ loc.preset = CurrentPresets - 1 /\ eeprom.preset[loc.preset] = MaxWord
         /\ eeprom.preset[0] = 1

\* C14: the check of lines 852-854 resets a stored default of CurrentPresets or
\* more to 0 and leaves a smaller one alone; from then on the stored default
\* stays in 0 .. CurrentPresets - 1, and RecalledPreset is in that range
\* throughout, whatever is browsed, stored or made the default afterwards.
C14_PresetIndexInRange ==
    /\ []((Qualifying \/ Decided \/ Normal) => eeprom.recall \in 0 .. CurrentPresets - 1)
    /\ [](RecalledPreset \in 0 .. CurrentPresets - 1)
    /\ [][IN_default => eeprom'.recall = IF eeprom.recall >= CurrentPresets THEN 0
                                           ELSE eeprom.recall]_vars

\* browsing from the last preset, the stored default, has wrapped round to preset 0
W_C14 == pc = "BR_wait" /\ RecalledPreset = 0 /\ eeprom.recall = CurrentPresets - 1

\* C15 as claimed: every value RecallPreset() hands to a caller other than the
\* range check itself (READ memory_number, READ ALL, the boot load, the preset
\* browser) is at most MaximumCurrent.
C15_LoadsInRange ==
    pc \in {"RA_print", "RD_print", "B_limit", "BR_show"} => loc.data <= MaximumCurrent

\* C16: when setup() is about to return (no error), RecalledPreset is the
\* stored default, CurrentLimit is the value stored for that preset, which is
\* at most MaximumCurrent, and the duty code last written is
\* MaximumCurrent + 1 - CurrentLimit, whatever calibration, a sweep, COMP_TEST
\* or the serial session left in CurrentLimit.
C16_BootLoad ==
    pc = "B_enable" =>
        /\ ErrorCode = ErrorNone
        /\ RecalledPreset = eeprom.recall
        /\ CurrentLimit = eeprom.preset[eeprom.recall]
        /\ CurrentLimit <= MaximumCurrent
        /\ pwm = MaximumCurrent + 1 - CurrentLimit

\* calibration had left CurrentLimit at MaximumCurrent; the boot load replaced
\* it with the 1 mA stored for the default preset
W_C16 == pc = "B_enable" /\ DummyZeroCrossingIRQenable /\ eeprom.recall = CurrentPresets - 1
         /\ CurrentLimit = 1 /\ pwm = MaximumCurrent

\* the decimal digit of v at place sel, place 0 being the ten thousands
DecimalDigit(v, sel) == (v \div Pow10(SourceCurrentDigitCount - 1 - sel)) % 10

\* v with its decimal digit at place sel replaced by d, in exact arithmetic
WithDigit(v, sel, d) ==
    v + (d - DecimalDigit(v, sel)) * Pow10(SourceCurrentDigitCount - 1 - sel)

\* C17: with MaximumCurrent 10000, from every CurrentLimit in range, for every
\* selected digit and every sequence of increments and digit changes, the
\* CurrentLimit an increment leaves is at most MaximumCurrent: it is the value
\* with the selected digit one higher (9 rolling over to 0) when that is at
\* most MaximumCurrent, and otherwise the value with the selected digit at 0,
\* which is not a clamp to MaximumCurrent; the increment always ends.
C17_EditStaysInRange ==
    /\ [](CurrentLimit \in 0 .. SourceMaximumCurrent)
    /\ [](pc # "ED_hang")
    /\ [][ArithIncrement =>
            LET d == DecimalDigit(CurrentLimit, loc.SelectedDigit)
                up == WithDigit(CurrentLimit, loc.SelectedDigit, (d + 1) % 10)
            IN IF up > SourceMaximumCurrent
                 THEN /\ CurrentLimit' = WithDigit(CurrentLimit, loc.SelectedDigit, 0)
                      /\ DecimalDigit(CurrentLimit', loc.SelectedDigit) = 0
                 ELSE CurrentLimit' = up]_vars

\* 9500 mA with the thousands selected: 10500 would exceed the maximum, so the
\* increment has left 500 mA
W_C17 == pc = "ED_wait" /\ loc.SelectedDigit = 1 /\ hist.reply = <<"increment", 9500>>
         /\ CurrentLimit = 500

\* C18: with MaximumCurrent 10000 and five digits, an increment changes the
\* selected decimal digit d of CurrentLimit to (d + 1) mod 10 or to 0 and
\* leaves every other decimal digit as it was; the places the code computes
\* are the decimal digits of CurrentLimit, composing them gives CurrentLimit
\* back, and the sum composed after an increment stays below 2^16.
C18_OnlySelectedDigit ==
    /\ [][ArithIncrement =>
            /\ \A i \in 0 .. SourceCurrentDigitCount - 1 :
                  i # loc.SelectedDigit => DecimalDigit(CurrentLimit', i) = DecimalDigit(CurrentLimit, i)
            /\ DecimalDigit(CurrentLimit', loc.SelectedDigit)
                 \in {(DecimalDigit(CurrentLimit, loc.SelectedDigit) + 1) % 10, 0}]_vars
    /\ [](Places(CurrentLimit, SourceLargestDigitIncrement, SourceCurrentDigitCount)
            = [i \in 1 .. SourceCurrentDigitCount |-> DecimalDigit(CurrentLimit, i - 1)])
    /\ [](Composed(Places(CurrentLimit, SourceLargestDigitIncrement, SourceCurrentDigitCount),
                   SourceLargestDigitIncrement, 0) = CurrentLimit)
    /\ [](WithDigit(CurrentLimit, loc.SelectedDigit,
                    DecimalDigit(CurrentLimit, loc.SelectedDigit) + 1) <= MaxWord)

\* 1999 mA with the units selected: the 9 has rolled over to 0 without a carry
\* into the tens, leaving 1990 mA
W_C18 == pc = "ED_wait" /\ loc.SelectedDigit = 4 /\ hist.reply = <<"increment", 1999>>
         /\ CurrentLimit = 1990

\* C19: a STORE whose memory number is outside 1 .. CurrentPresets or whose
\* current exceeds MaximumCurrent is answered ERROR and changes no preset
\* cell, not the stored default, the stored countermeasure flag, CurrentLimit
\* or the PWM; so is a STORE ... DEFAULT whose memory number is outside
\* 1 .. CurrentPresets.
C19_StoreRejected ==
    /\ [][\A m \in MemoryInputs, v \in CurrentInputs :
            (Store(m, v) /\ (m \notin 1 .. CurrentPresets \/ v > MaximumCurrent))
              => /\ hist'.reply = <<"ERROR">>
                 /\ pc' = "SER"
                 /\ UNCHANGED <<eeprom, pwm, ram>>]_vars
    /\ [][\A m \in MemoryInputs, x \in Indeterminate :
            (StoreDefault(m, x) /\ m \notin 1 .. CurrentPresets)
              => /\ hist'.reply = <<"ERROR">>
                 /\ pc' = "SER"
                 /\ UNCHANGED <<eeprom, pwm, ram>>]_vars
    /\ [](hist.cmd[1] \in {"STORE", "STORE DEFAULT"} /\ hist.cmd[2] \notin 1 .. CurrentPresets
            => hist.reply = <<"ERROR">>)
    /\ [](hist.cmd[1] = "STORE" /\ hist.cmd[3] > MaximumCurrent => hist.reply = <<"ERROR">>)

\* a STORE to the memory after the last, with a current in range, was refused
W_C19 == pc = "SER" /\ hist.cmd = <<"STORE", CurrentPresets + 1, MaximumCurrent>>
         /\ hist.reply = <<"ERROR">>

\* C20 as claimed: a STORE ... DEFAULT with a memory number in
\* 1 .. CurrentPresets is always answered OK and leaves that number less one as
\* the stored default, whatever ValueToStore holds.
C20_StoreDefaultTaken ==
    (hist.cmd[1] = "STORE DEFAULT" /\ hist.cmd[2] \in 1 .. CurrentPresets)
        => (hist.reply = <<"OK">> /\ eeprom.recall = hist.cmd[2] - 1)

\* C21 as claimed: with the countermeasure flag set, the first press has set
\* the load request LOW by the time the grace window for the second press begins.
C21_FirstPressDisables == pc = "M_grace" => EnableOutput = LOW

\* C21 as amended: with the countermeasure flag set, the first press and the
\* grace window leave the load request as it was; the request is LOW once a
\* second press has come within the window, before that press is timed.
C21_SecondPressDisables ==
    /\ [][(pc \in {"L_button", "M_grace"}) => EnableOutput' = EnableOutput]_vars
    /\ [](pc = "M_grace" => BackEMFcountermeasuresRequired = TRUE)
    /\ [](pc = "M_held" /\ BackEMFcountermeasuresRequired = TRUE => EnableOutput = LOW)

\* the second press came while the load was on: the request is LOW and the
\* output still HIGH until the next zero crossing
W_C21 == /\ pc = "M_held" /\ BackEMFcountermeasuresRequired = TRUE
         /\ DummyZeroCrossingIRQenable = FALSE
         /\ EnableOutput = LOW /\ OutputEnable = HIGH

\* the foreground is in the calibration of lines 501-531, from the write of the
\* limit to the wait for a press, or in CALIBRATE or after it, before the next command
InCalibrate ==
    \/ Where \in {"CAL_dis", "CAL_hold"}
    \/ hist.cmd = <<"CALIBRATE">> /\ Where \in {"CC_dis", "SER_ok", "SER"}

\* the menu is open: select preset, program preset, store preset (StorePreset()
\* in progress) or assign default, or the second press is being timed
InMenu == \/ Where \in {"M_held", "BR_next", "BR_show", "BR_wait", "BR_held", "ED_wait",
                       "ED_hang", "M_defaultWrite"}
          \/ Where = "M_menu" /\ (loc.hold <= 10 \/ stack # <<>>)
          \/ Where = "M_exit" /\ stack # <<>>

\* C22: with the countermeasure flag set and not in diagnostic mode, the load
\* request is LOW wherever the menu is open, and HIGH again from the statement
\* after the menu exit on, before the duty display resumes.
C22_MenuKeepsLoadOff ==
    (BackEMFcountermeasuresRequired = TRUE /\ DummyZeroCrossingIRQenable = FALSE)
       => /\ InMenu => EnableOutput = LOW
          /\ pc \in {"M_clear", "M_clearOC", "M_sync", "L_top", "L_poll", "L_update", "L_wait"}
                => EnableOutput = HIGH

\* a preset is being stored from the menu with the output already off
W_C22 == /\ BackEMFcountermeasuresRequired = TRUE /\ DummyZeroCrossingIRQenable = FALSE
         /\ pc = "SP_write" /\ Where = "M_exit" /\ OutputEnable = LOW /\ EnableOutput = LOW

\* C23: with the countermeasure flag set and no second press within the grace
\* window, no menu branch is entered; CurrentLimit, RecalledPreset, the duty
\* code written and the whole EEPROM are at the menu exit what they were when
\* the button was pressed, and stay so until loop() returns; outside diagnostic
\* mode the load request is HIGH throughout and when loop() returns.
C23_NoSecondPressNoAction ==
    /\ [](hist.act = "none"
            => /\ pc \in {"M_menu", "M_exit"} /\ stack = <<>>
               /\ BackEMFcountermeasuresRequired = TRUE
               /\ <<RecalledPreset, CurrentLimit, pwm, eeprom>> = hist.before
               /\ (DummyZeroCrossingIRQenable = FALSE => EnableOutput = HIGH))
    /\ [][(pc = "M_grace" /\ pc' = "M_menu") => hist'.act = "none"]_vars
    /\ [][(pc \in {"M_exit", "M_clear", "M_clearOC", "M_sync"})
            => UNCHANGED <<RecalledPreset, CurrentLimit, pwm, eeprom>>]_vars
    /\ [][(pc = "M_sync" /\ pc' = "L_top" /\ BackEMFcountermeasuresRequired = TRUE
             /\ DummyZeroCrossingIRQenable = FALSE) => EnableOutput' = HIGH]_vars

\* the grace window ran out with the load on; the menu exit is reached with
\* the load still requested and the output still HIGH
W_C23 == /\ pc = "M_exit" /\ stack = <<>> /\ hist.act = "none"
         /\ DummyZeroCrossingIRQenable = FALSE
         /\ EnableOutput = HIGH /\ OutputEnable = HIGH

\* C24: in select preset every press of 0-2 seconds (the one that enters it
\* included) advances RecalledPreset by one modulo CurrentPresets; the mode
\* is left only by a recall (3-5 seconds) or by an exit (> 5 seconds).  After
\* a recall CurrentLimit is the stored value of the recalled preset and the
\* duty code written is MaximumCurrent + 1 - CurrentLimit; after an exit
\* RecalledPreset, CurrentLimit and the duty code are what they were when the
\* button was pressed.  The EEPROM is written in neither case, and the duty
\* code is not written while presets are being cycled.
C24_BrowseRecallOrCancel ==
    /\ [][(pc = "BR_next" /\ pc' # "BR_next")
            => RecalledPreset' = (RecalledPreset + 1) % CurrentPresets]_vars
    /\ [][(Where \in {"BR_next", "BR_show", "BR_wait", "BR_held"})
            => /\ UNCHANGED <<pwm, eeprom>>
               /\ Where' \in {"BR_next", "BR_show", "BR_wait", "BR_held"}
                    \/ hist'.act \in {"recall", "cancel"}]_vars
    /\ [](hist.act = "recall" /\ stack = <<>>
            => /\ RecalledPreset \in Presets
               /\ CurrentLimit = eeprom.preset[RecalledPreset]
               /\ pwm = MaximumCurrent + 1 - CurrentLimit
               /\ eeprom = hist.before[4])
    /\ [](hist.act = "cancel"
            => <<RecalledPreset, CurrentLimit, pwm, eeprom>> = hist.before)

\* a recall that changed the preset, the current limit and the duty code
W_C24 == /\ hist.act = "recall" /\ pc = "M_exit" /\ stack = <<>>
         /\ RecalledPreset # hist.before[1]
         /\ CurrentLimit # hist.before[2]
         /\ pwm # hist.before[3]

\* C25: store preset (6-9 seconds) leaves the EEPROM as it was except that the
\* cell of preset RecalledPreset holds CurrentLimit; assign default (10
\* seconds) leaves it as it was except that the default cell holds
\* RecalledPreset; neither changes CurrentLimit, RecalledPreset or the duty
\* code written; select preset and program preset never write the EEPROM.
C25_StoreAndDefaultFrame ==
    /\ [](hist.act \in {"store", "default"}
            => <<RecalledPreset, CurrentLimit, pwm>>
                   = <<hist.before[1], hist.before[2], hist.before[3]>>)
    /\ [](hist.act = "store" /\ pc = "M_exit" /\ stack = <<>>
            => eeprom = [hist.before[4] EXCEPT !.preset[hist.before[1]] = hist.before[2]])
    /\ [](hist.act = "store" /\ ~(pc = "M_exit" /\ stack = <<>>) /\ pc # "EI_attachOC"
             /\ pc # "EI_attachZC" => eeprom = hist.before[4])
    /\ [](hist.act = "default" /\ pc = "M_exit" /\ stack = <<>>
            => eeprom = [hist.before[4] EXCEPT !.recall = hist.before[1]])
    /\ [](hist.act = "default" /\ Where = "M_defaultWrite" => eeprom = hist.before[4])
    /\ [][(Where \in {"M_held", "M_menu", "BR_next", "BR_show", "BR_wait", "BR_held",
                      "ED_wait", "ED_hang"}) => eeprom' = eeprom]_vars

\* the last preset was stored with a current that differs from the one it held
W_C25 == /\ hist.act = "store" /\ pc = "M_exit" /\ stack = <<>>
         /\ RecalledPreset = CurrentPresets - 1
         /\ eeprom # hist.before[4]
         /\ eeprom.preset[RecalledPreset] = CurrentLimit

\* C26: a power-on hold of 2-4 seconds inverts BackEMFcountermeasuresRequired
\* and leaves the EEPROM as it is; from then on the flag in memory is the
\* opposite of the stored one and neither changes again, so the stored flag is
\* the original one at the next power-on.  The stored flag cell changes only
\* in the calibration toggle (hold of 10 seconds) and in BACK_EMF ON / OFF.
C26_TemporaryToggle ==
    /\ [][(pc = "S_dispatch" /\ loc.hold >= 2 /\ loc.hold <= 4 /\ pc' # "S_dispatch")
            => /\ BackEMFcountermeasuresRequired' = ~BackEMFcountermeasuresRequired
               /\ BackEMFcountermeasuresRequired' = ~(eeprom.backemf # 0)
               /\ eeprom' = eeprom]_vars
    /\ [][(pc # "S_flag" /\ BackEMFcountermeasuresRequired # (eeprom.backemf # 0))
            => /\ BackEMFcountermeasuresRequired' = BackEMFcountermeasuresRequired
               /\ eeprom'.backemf = eeprom.backemf]_vars
    /\ [][eeprom'.backemf # eeprom.backemf
            => \/ pc = "CAL_act" /\ loc.hold >= 10
               \/ pc = "SER" /\ hist'.reply = <<"OK">>
                    /\ BackEMFcountermeasuresRequired' = (eeprom'.backemf # 0)]_vars
    /\ [](pc # "S_flag" /\ BackEMFcountermeasuresRequired # (eeprom.backemf # 0)
            => Where \notin CalibrationLabels /\ Where # "SER")

\* loop() serves a press with the countermeasures on for this power cycle
\* only: the stored flag is off
W_C26 == pc = "M_grace" /\ BackEMFcountermeasuresRequired = TRUE /\ eeprom.backemf = 0

\* C27: in the boot sweep and in CURRENT_SWEEP a pass applies 0, 1, 2, ... in
\* this order (the value applied is 0 or one more than the value applied
\* before), each with its duty code; applying 0 clears the overcurrent flag; a
\* trip is reported by the check that follows the application of a value, with
\* the flag set and with exactly that value, and it ends the pass, so that no
\* greater value was applied before the report; a check that reads the flag
\* clear reports nothing and the pass goes on; the out-of-range line is printed
\* only with MaximumCurrent applied and the flag read clear.
C27_SweepReportsFirstTrip ==
    /\ [][((pc \in {"BS_inner", "CS_inner"} /\ pc' = "WCL_sweep")
            => /\ CurrentLimit' = loc.i
               /\ (loc.i = 0 \/ loc.i = CurrentLimit + 1))]_vars
    /\ [][((pc = "WCL_sweep" /\ pc' # pc)
            => /\ pwm' = MaximumCurrent + 1 - CurrentLimit
               /\ (pc' = "WCL_clear") = (CurrentLimit = 0))]_vars
    /\ [][((pc = "WCL_clear" /\ pc' # pc) => OvercurrentSensed' = FALSE)]_vars
    /\ [](pc \in {"BS_check", "CS_check", "BS_range", "CS_range"}
            => CurrentLimit = loc.i /\ pwm = MaximumCurrent + 1 - CurrentLimit)
    /\ [][((pc \in {"BS_check", "CS_check"} /\ pc' # pc)
            => IF OvercurrentSensed
                 THEN /\ hist'.reply = <<"sense", CurrentLimit>>
                      /\ pc' = (IF pc = "BS_check" THEN "BS_outer" ELSE "CS_outer")
                      /\ CurrentLimit' = CurrentLimit
                 ELSE /\ hist'.reply = hist.reply
                      /\ pc' = (IF pc = "BS_check" THEN "BS_range" ELSE "CS_range"))]_vars
    /\ [][((hist'.reply # hist.reply /\ hist'.reply[1] = "sense")
            => pc \in {"BS_check", "CS_check"} /\ OvercurrentSensed)]_vars
    /\ [][((hist'.reply # hist.reply /\ hist'.reply = <<"out limit">>)
            => /\ pc \in {"BS_range", "CS_range"}
               /\ ~OvercurrentSensed
               /\ CurrentLimit = MaximumCurrent
               /\ pwm = 1)]_vars

\* CURRENT_SWEEP has reported a trip at the value below MaximumCurrent, which
\* is the value still applied
W_C27 == /\ pc = "CS_outer"
         /\ hist.reply = <<"sense", MaximumCurrent - 1>>
         /\ CurrentLimit = MaximumCurrent - 1
         /\ loc.i = MaximumCurrent - 1

\* C28: every step of a sweep that applies a value has polled the stop signal
\* (the button in the boot sweep, a received byte in CURRENT_SWEEP) and read it
\* absent; a poll of the inner loop that reads it present ends the pass with
\* the limit and the duty code as they were; a poll of the outer loop, and of
\* the COMP_TEST loop, that reads it present leaves through
\* DisableInterrupts(), and a received byte, which stays unread, is read
\* present by the next poll; when the test has been left, both triggers are
\* detached and the output is LOW.
C28_StopSignalEndsTest ==
    /\ [][((pc \in {"BS_inner", "CS_inner"} /\ pc' # pc /\ loc.i <= MaximumCurrent)
            => IF loc'.stop
                 THEN /\ pc' = (IF pc = "BS_inner" THEN "BS_outer" ELSE "CS_outer")
                      /\ CurrentLimit' = CurrentLimit /\ pwm' = pwm
                 ELSE pc' = "WCL_sweep" /\ CurrentLimit' = loc.i)]_vars
    /\ [][((pc \in {"BS_outer", "CS_outer"} /\ pc' # pc)
            => IF loc'.stop
                 THEN /\ pc' = "DI_detachZC"
                      /\ stack' = <<(IF pc = "BS_outer" THEN "CAL_dummy" ELSE "SER_ok")>> \o stack
                      /\ CurrentLimit' = CurrentLimit /\ pwm' = pwm
                 ELSE pc' = (IF pc = "BS_outer" THEN "BS_inner" ELSE "CS_inner"))]_vars
    /\ [][((pc \in {"CS_outer", "CS_inner"} /\ pc' # pc /\ loc.stop) => loc'.stop)]_vars
    /\ [][((pc = "CT_loop" /\ loc'.stop)
            => pc' = "DI_detachZC" /\ stack' = <<"SER_ok">> \o stack)]_vars
    /\ []((pc \in {"SER_ok", "CAL_dummy"} /\ loc.stop)
            => TriggersDisabled /\ OutputEnable = LOW)

\* CURRENT_SWEEP was stopped by a byte before MaximumCurrent was applied and
\* has been left
W_C28 == /\ pc = "SER_ok" /\ loc.stop
         /\ loc.i = MaximumCurrent /\ CurrentLimit = MaximumCurrent - 1
         /\ pwm = 2

\* C29: the calibration entered by a power-on hold of 10 seconds or more, and
\* the CALIBRATE command, set CurrentLimit to MaximumCurrent and write the duty
\* code 1; when they wait for the press, or for the next command, both triggers
\* are detached and the output is LOW; no step of them changes the EEPROM.
C29_CalibrateFrame ==
    /\ [][((pc = "S_dispatch" /\ loc.hold >= 10 /\ pc' # pc)
            => CurrentLimit' = MaximumCurrent /\ pc' = "WCL" /\ InCalibrate')]_vars
    /\ [][((pc = "SER" /\ pc' # pc /\ hist'.cmd = <<"CALIBRATE">>)
            => CurrentLimit' = MaximumCurrent /\ pc' = "WCL" /\ InCalibrate')]_vars
    /\ [][(((InCalibrate /\ pc # "SER") \/ InCalibrate') => eeprom' = eeprom)]_vars
    /\ [](InCalibrate => CurrentLimit = MaximumCurrent)
    /\ [](InCalibrate /\ pc # "WCL" => pwm = 1)
    /\ [](InCalibrate /\ pc \in {"CAL_hold", "SER_ok", "SER"}
            => TriggersDisabled /\ OutputEnable = LOW)

\* CALIBRATE has returned with the largest limit applied, in a session entered
\* with the limit 0 of power-on and every stored limit above MaximumCurrent
W_C29 == /\ pc = "SER_ok" /\ hist.cmd = <<"CALIBRATE">>
         /\ CurrentLimit = MaximumCurrent /\ pwm = 1
         /\ \A q \in Presets : eeprom.preset[q] > MaximumCurrent

\* C30: every menu exit, the one of a press that selected nothing included,
\* goes on to clear ZeroCrossingDetected and then OvercurrentSensed and to the
\* wait of lines 1149-1151; from the clearing on ZeroCrossingDetected rises
\* only in a run of the zero-cross handler, which stays attached, and loop()
\* returns to the duty display only with the flag read set, so after a zero
\* crossing that came after the exit; if zero crossings keep coming, a wait
\* that has begun ends with the return of loop().
C30_ExitWaitsForZeroCross ==
    /\ [][((pc = "M_menu" /\ stack = <<>> /\ loc.hold > 10 /\ pc' # pc) => pc' = "M_exit")]_vars
    /\ [][((pc = "M_exit" /\ pc' # pc) => pc' = "M_clear")]_vars
    /\ [][((pc = "M_clear" /\ pc' # pc)
            => ZeroCrossingDetected' = FALSE /\ pc' = "M_clearOC")]_vars
    /\ [][((pc = "M_clearOC" /\ pc' # pc)
            => OvercurrentSensed' = FALSE /\ pc' = "M_sync")]_vars
    /\ [][((pc \in {"M_clearOC", "M_sync"} /\ ~ZeroCrossingDetected /\ ZeroCrossingDetected')
            => ZeroCrossEdge)]_vars
    /\ [][((pc = "M_sync" /\ pc' # pc) => ZeroCrossingDetected /\ pc' = "L_top")]_vars
    /\ [](pc \in {"M_clear", "M_clearOC", "M_sync"} => stack = <<>> /\ zcAttach # "none")
    /\ (([]<><<ZeroCrossEdge>>_vars) => (pc = "M_sync" ~> pc = "L_top"))

\* loop() has returned from the menu of the first press with a zero crossing
\* flagged during the wait, and an overcurrent flagged after it
W_C30 == /\ pc = "L_top" /\ hist.npress = MaxPresses - 1 /\ loc = NoLocals
         /\ ZeroCrossingDetected /\ OvercurrentSensed

\* C31: every step of the foreground that reads or writes the stored default
\* preset number or the stored countermeasure flag runs with both triggers
\* detached: the read of the flag at power-on, the correction of the default
\* after the range check of the presets, the recall of the default, STORE ...
\* DEFAULT when taken, READ ALL, a BACK_EMF ON / OFF that changes the flag, the
\* calibration toggle and the menu action of 10 seconds.
C31_ConfigAccessDetached ==
    [][((\/ S_flag
         \/ IN_default
         \/ B_recall
         \/ CAL_toggle
         \/ M_defaultWrite
         \/ SER_readAll
         \/ SER_storeDefault /\ hist'.reply = <<"OK">>
         \/ SER_backEMF /\ eeprom'.backemf # eeprom.backemf)
        => TriggersDisabled)]_vars

\* C32, as claimed: a handler never clears an event flag and never turns the
\* output on; a step of the foreground never sets an event flag, never takes
\* the load request from HIGH to LOW and never changes the output.
C32_AsymmetricWrites ==
    [][ /\ ((ZeroCrossEdge \/ OvercurrentEdge)
              => /\ (ZeroCrossingDetected => ZeroCrossingDetected')
                 /\ (OvercurrentSensed => OvercurrentSensed')
                 /\ ~(OutputEnable = LOW /\ OutputEnable' = HIGH))
        /\ (~(ZeroCrossEdge \/ OvercurrentEdge)
              => /\ (ZeroCrossingDetected' => ZeroCrossingDetected)
                 /\ (OvercurrentSensed' => OvercurrentSensed)
                 /\ ~(EnableOutput = HIGH /\ EnableOutput' = LOW)
                 /\ OutputEnable' = OutputEnable)
      ]_vars

\* C32, amended: a handler never clears an event flag and leaves the load
\* request alone; the overcurrent handler turns the output off and the
\* zero-cross handler sets it to the load request; a step of the foreground
\* never sets an event flag, turns the load request off only at the second
\* press of line 980, and changes the output only in DisableInterrupts(), to
\* LOW.
C32_WritePattern ==
    [][ /\ (ZeroCrossEdge
              => /\ ZeroCrossingDetected' /\ OvercurrentSensed' = OvercurrentSensed
                 /\ OutputEnable' = EnableOutput /\ EnableOutput' = EnableOutput)
        /\ (OvercurrentEdge
              => /\ OvercurrentSensed' /\ ZeroCrossingDetected' = ZeroCrossingDetected
                 /\ OutputEnable' = LOW /\ EnableOutput' = EnableOutput)
        /\ (~(ZeroCrossEdge \/ OvercurrentEdge)
              => /\ (ZeroCrossingDetected' => ZeroCrossingDetected)
                 /\ (OvercurrentSensed' => OvercurrentSensed)
                 /\ ((EnableOutput = HIGH /\ EnableOutput' = LOW) => pc = "M_disable")
                 /\ (OutputEnable' # OutputEnable => pc = "DI_low" /\ OutputEnable' = LOW))
      ]_vars

\* the second press has turned the load request off and the output, turned on
\* by the zero-cross handler, is still on
W_C32 == /\ pc = "M_held" /\ EnableOutput = LOW /\ OutputEnable = HIGH
         /\ BackEMFcountermeasuresRequired = TRUE

\* C33: while loop() runs outside the menu, the duty code last written is
\* MaximumCurrent + 1 - CurrentLimit; the preset browser and the preset editor
\* are left either through WriteCurrentLimit(), after which the duty code is that
\* of CurrentLimit, or with CurrentLimit set back to the value it had, and the
\* duty code still the one written, when the button was pressed.
C33_DutyFollowsLimit ==
    /\ []((Normal /\ ~InMenu) => pwm = MaximumCurrent + 1 - CurrentLimit)
    /\ [][((pc \in {"BR_held", "ED_wait"} /\ pc' = "M_menu")
            => /\ pc = "BR_held"
               /\ CurrentLimit' = hist.before[2]
               /\ pwm' = hist.before[3] /\ pwm' = pwm)]_vars
    /\ [][((pc \in {"BR_held", "ED_wait"} /\ pc' \notin {"M_menu", "BR_held", "ED_wait"})
            => \/ pc' = "WCL" /\ stack' = <<"M_menu">> /\ CurrentLimit' = CurrentLimit
               \/ pc' \in {"BR_next", "ED_hang"}
               \/ pc = "ED_wait" /\ InMenu')]_vars
    /\ [](hist.act \in {"recall", "program", "cancel"} /\ pc \in {"M_menu", "M_exit"} /\ stack = <<>>
            => pwm = MaximumCurrent + 1 - CurrentLimit)

\* the browser showed a preset with another limit and was left by the exit:
\* the limit and the duty code are those of before the press
W_C33 == /\ hist.act = "cancel" /\ pc = "M_exit" /\ stack = <<>>
         /\ \E q \in Presets : eeprom.preset[q] # CurrentLimit
         /\ pwm = MaximumCurrent + 1 - CurrentLimit

C35_PercentageInRange ==
    /\ [](Normal => /\ ZeroCrossingTime \in 1 .. MaxWord
                    /\ 100 * ZeroCrossingTime >= 75 * ((1000000 \div MainsFrequency) \div 2))
    /\ [][((pc = "L_poll" /\ pc' = "L_update") => hist'.reply[1] = "percent")]_vars
    /\ [](hist.reply[1] = "percent" => pc = "L_update" /\ hist.reply[2] \in 0 .. 100)

\* the elapsed time is the first whose product with 100 does not fit 32 bits:
\* the percentage displayed is 0
W_C35 == pc = "L_update" /\ hist.reply = <<"percent", 0, <<655, 23593>>>>

====
